---- MODULE Spec2Model ----
(***************************************************************************)
(* Model of the post-filtering pipeline of fb-group-scraper:               *)
(*   filterPosts.py  - classifies one post URL and commits the outcome to  *)
(*                     the outcome ledgers and the run-log;                *)
(*   run_filters.py  - walks the pending work-list, runs filterPosts as a  *)
(*                     child, reads its output line by line and acts on    *)
(*                     the outcome markers (done_urls append, pending-list *)
(*                     rewrite).                                           *)
(* Strings are sequences of tokens (a token is a run of characters the     *)
(* code never looks inside); a CSV cell is such a string, a row a sequence *)
(* of cells, a file a sequence of rows.                                    *)
(***************************************************************************)
EXTENDS Integers, Sequences, FiniteSets, TLC

\* ------------------------------------------------------------------ bounds
\* Number of process launches (run_filters runs plus direct filterPosts
\* runs) explored in the orchestrated specification.
MaxRuns == 2

\* Number of filterPosts launches explored in the racing specification.
MaxRaceRuns == 2

\* Value of max_scrolls the crawl is run with (MAX_SCROLLS is 6000).
MaxScrolls == 4

\* Number of comments postComments returns for a post in the exploration of
\* the classification.
MaxComments == 3

\* Length, in tokens, of a text given to oneline.
MaxText == 5
\* comment blocks on the page handed to postComments.scrape_comments
MaxBlocks == 4
\* successive calls of run_filters.append_done_url_now
MaxCalls == 3
\* data rows of the pending list handed to the removal
MaxRows == 3

\* Number of trailing slashes of an input URL of the canonicalizers.
MaxSlashes == 2

\* Number of browser crashes in one exploration.
MaxCrashes == 1

\* ------------------------------------------------------------ string helpers
WS == {" ", "\t", "\n", "\r", "\f"}

RECURSIVE LStripSet(_, _)
LStripSet(s, T) ==
  IF s # <<>> /\ Head(s) \in T THEN LStripSet(Tail(s), T) ELSE s

RECURSIVE RStripSet(_, _)
RStripSet(s, T) ==
  IF s # <<>> /\ s[Len(s)] \in T THEN RStripSet(SubSeq(s, 1, Len(s) - 1), T) ELSE s

\* str.strip()
Strip(s) == RStripSet(LStripSet(s, WS), WS)

\* index of the first token of s that is in T, 0 if none
FirstIdx(s, T) ==
  IF \E i \in 1..Len(s) : s[i] \in T
  THEN CHOOSE i \in 1..Len(s) : s[i] \in T /\ \A j \in 1..(i - 1) : s[j] \notin T
  ELSE 0

\* the part of s before its first token in T (all of s if there is none)
CutAt(s, T) == IF FirstIdx(s, T) = 0 THEN s ELSE SubSeq(s, 1, FirstIdx(s, T) - 1)

\* str.lower() on the tokens the model uses
LowerTok(t) ==
  CASE t = "Post" -> "post"
    [] t = "URL" -> "url"
    [] t = "Url" -> "url"
    [] t = "#ADMIN" -> "#admin"
    [] t = "#Admin" -> "#admin"
    [] t = "King Cobra" -> "king cobra"
    [] t = "Mod" -> "mod"
    [] t = "Jane" -> "jane"
    [] OTHER -> t

Lower(s) == [i \in 1..Len(s) |-> LowerTok(s[i])]

Schemes == {"https://", "http://"}

\* only the mobile host is replaced
ReplaceHost_mobile_only(u) ==
  [i \in 1..Len(u) |->
     IF i > 1 /\ u[i - 1] \in Schemes /\ u[i] = "m.facebook."
     THEN "www.facebook." ELSE u[i]]

\* u.replace("://m.facebook.", "://www.facebook.").replace("://facebook.", "://www.facebook.")
ReplaceHost(u) ==
  [i \in 1..Len(u) |->
     IF i > 1 /\ u[i - 1] \in Schemes /\ u[i] \in {"m.facebook.", "facebook."}
     THEN "www.facebook." ELSE u[i]]

\* re.sub(r"[?#].*$", "", s): "." does not match a newline and "$" is the end
\* of the string, so the cut is at the first "?" or "#" with no newline after it
ReSubQueryFrag(s) ==
  LET I == {i \in 1..Len(s) :
              s[i] \in {"?", "#"} /\ \A j \in (i + 1)..Len(s) : s[j] # "\n"}
  IN IF I = {} THEN s
     ELSE SubSeq(s, 1, (CHOOSE i \in I : \A j \in I : i <= j) - 1)

\* filterPosts.normalize_url
normalize_url(u) ==
  IF u = <<>> THEN <<>>
  ELSE CHOOSE r \in
         {RStripSet(q, {"/"}) : q \in
           {ReSubQueryFrag(x) : x \in {ReplaceHost(Strip(u))}}} : TRUE

\* run_filters.normalize_url
rf_normalize_url(u) ==
  IF u = <<>> THEN <<>>
  ELSE RStripSet(CutAt(CutAt(ReplaceHost(Strip(u)), {"?"}), {"#"}), {"/"})

\* ---- oneline / normalize_fancy_letters
normalize_fancy_letters(s) ==
  [i \in 1..Len(s) |-> IF s[i] = "fancy-naja" THEN "naja philippinensis" ELSE s[i]]

\* re.sub(r"[\r\n\t]+", " ", s): every run of CR/LF/TAB tokens becomes one space
RECURSIVE SubCtl(_)
SubCtl(s) ==
  IF s = <<>> THEN <<>>
  ELSE IF Head(s) \in {"\r", "\n", "\t"}
       THEN <<" ">> \o SubCtl(LStripSet(s, {"\r", "\n", "\t"}))
       ELSE <<Head(s)>> \o SubCtl(Tail(s))

\* every pair of whitespace tokens becomes one space
RECURSIVE SubWs_pairs(_)
SubWs_pairs(s) ==
  IF s = <<>> THEN <<>>
  ELSE IF Head(s) \in WS /\ Len(s) > 1 /\ s[2] \in WS
       THEN <<" ">> \o SubWs_pairs(Tail(Tail(s)))
       ELSE <<Head(s)>> \o SubWs_pairs(Tail(s))

\* re.sub(r"\s{2,}", " ", s): every run of two or more whitespace tokens
\* becomes one space
RECURSIVE SubWs(_)
SubWs(s) ==
  IF s = <<>> THEN <<>>
  ELSE IF Head(s) \in WS /\ Len(s) > 1 /\ s[2] \in WS
       THEN <<" ">> \o SubWs(LStripSet(s, WS))
       ELSE <<Head(s)>> \o SubWs(Tail(s))

oneline(s) ==
  IF s = <<>> THEN <<>> ELSE Strip(SubWs(SubCtl(normalize_fancy_letters(s))))

\* ------------------------------------------------------------- input data
\* Candidate post URLs.  U1v is a host-alias / query / trailing-slash
\* variant of U1.
U1 == <<"https://", "www.facebook.", "com/groups/g/posts/1">>
U1v == <<"https://", "m.facebook.", "com/groups/g/posts/1", "/", "?", "ref=share">>
U2 == <<"https://", "www.facebook.", "com/groups/g/posts/2">>

\* URLs filterPosts is run on by hand
DirectURLs == {U1v}
CanonURLs == {U1, U2}

\* Comments as postComments returns them: {commenter, text}
CAdminSnake == [commenter |-> <<"Mod">>, text |-> <<"#admin", " ", "King Cobra">>]
CAdminOnly == [commenter |-> <<"Mod">>, text |-> <<"noted">>]
CSnake == [commenter |-> <<"Jane">>, text |-> <<"fancy-naja", "\n", "near", " ", "creek">>]
CSnake2 == [commenter |-> <<"Bob">>, text |-> <<"naja sp.">>]
CPlain == [commenter |-> <<"Jane">>, text |-> <<"nice", " ", "photo">>]
CStaffSnake == [commenter |-> <<"Mod">>, text |-> <<"King Cobra">>]

\* What postComments may scrape for a post; a post's comments change
\* between runs
CommentLists(url) ==
  IF normalize_url(url) = U1
  THEN { <<CPlain, CAdminSnake>>, <<CSnake, CAdminOnly>> }
  ELSE { <<>>, <<CPlain, CSnake, CSnake2, CSnake>> }


\* ------------------------------------------------------------------ files
\* A file: whether it exists, the rows the operating system holds for it
\* (what any process reading it sees), and the rows forced to stable storage.
AbsentFile == [exists |-> FALSE, os |-> <<>>, disk |-> <<>>]

FileNames == {"accepted", "nonadmin", "rejected", "log", "done", "pending"}
OutcomeLedgers == {"accepted", "nonadmin", "rejected"}

\* An open file object: the file plus the rows still in the writer's buffer.
open_a(fr) == [exists |-> TRUE, os |-> fr.os, disk |-> fr.disk, buf |-> <<>>]
open_w(fr) == [exists |-> TRUE, os |-> <<>>, disk |-> fr.disk, buf |-> <<>>]
writerows(h, rows) == [h EXCEPT !.buf = @ \o rows]
flush(h) == [h EXCEPT !.os = @ \o h.buf, !.buf = <<>>]
fsync(h) == [h EXCEPT !.disk = h.os]
close(h) == [exists |-> h.exists, os |-> h.os \o h.buf, disk |-> h.disk]

\* ---- filterPosts CSV helpers
HdrRejected == << <<"post", " ", "url">>, <<"commenter">>, <<"comment", " ", "text">> >>
HdrLog == << <<"url">>, <<"comment", " ", "scraped">>, <<"status">> >>

\* ensure_csv_with_header, the part after the existence test:
\* open("w"), write the header, close
create_with_header(fr, headers) == close(writerows(open_w(fr), <<headers>>))

\* append_rows: open("a"), writerows, close; no flush, no fsync
append_rows(fr, rows) ==
  IF rows = <<>> THEN fr ELSE close(writerows(open_a(fr), rows))

\* _clean_fieldname: drop BOM, collapse whitespace, strip, lower
clean_fieldname(fn) ==
  Lower(Strip(SubWs(SubCtl(SelectSeq(fn, LAMBDA t : t # "BOM")))))

ContainsUrl(cell) == \E i \in 1..Len(cell) : cell[i] \in {"url", "post_url"}

\* _find_url_column knowing only the header "url"
find_url_column_url_only(fieldnames) ==
  IF \E i \in 1..Len(fieldnames) : fieldnames[i] = <<"url">>
  THEN CHOOSE i \in 1..Len(fieldnames) :
         fieldnames[i] = <<"url">> /\ \A j \in 1..(i - 1) : fieldnames[j] # <<"url">>
  ELSE 0

\* _find_url_column: index of the identity column, 0 for None
\* cleaned_to_orig is a dict: of the headers with one cleaned name the last
\* one is kept, at the place of the first
find_url_column(fieldnames) ==
  LET cleaned == [i \in 1..Len(fieldnames) |-> clean_fieldname(fieldnames[i])]
      Exact(w) == {i \in 1..Len(fieldnames) : cleaned[i] = w}
      Loose == {i \in 1..Len(fieldnames) : ContainsUrl(cleaned[i])}
      Min(S) == CHOOSE i \in S : \A j \in S : i <= j
      Max(S) == CHOOSE i \in S : \A j \in S : i >= j
  IN IF fieldnames = <<>> THEN 0
     ELSE IF Exact(<<"post", " ", "url">>) # {} THEN Max(Exact(<<"post", " ", "url">>))
     ELSE IF Exact(<<"url">>) # {} THEN Max(Exact(<<"url">>))
     ELSE IF Loose # {} THEN Max(Exact(cleaned[Min(Loose)]))
     ELSE 0

Cell(row, col) == IF col >= 1 /\ col <= Len(row) THEN row[col] ELSE <<>>

\* url_in_csv
url_in_csv(fr, url_norm) ==
  IF ~fr.exists THEN FALSE
  ELSE IF fr.os = <<>> THEN FALSE
  ELSE LET url_col == find_url_column(fr.os[1])
       IN url_col # 0 /\
          \E i \in 2..Len(fr.os) :
             LET v == normalize_url(Cell(fr.os[i], url_col))
             IN v # <<>> /\ v = url_norm

\* already_processed forgetting the rejected ledger
already_processed_accepted_only(fs, url_raw) ==
  {l \in {"accepted", "nonadmin"} : url_in_csv(fs[l], normalize_url(url_raw))}

\* already_processed: the set of outcome ledgers holding the URL
already_processed(fs, url_raw) ==
  {l \in OutcomeLedgers : url_in_csv(fs[l], normalize_url(url_raw))}

\* ---- classification (filterPosts)
has_admin_tag(text) == \E i \in 1..Len(text) : LowerTok(text[i]) = "#admin"

\* text_matches_targets: case-insensitive search over the one-line text
text_matches_targets(text) ==
  text # <<>> /\ \E i \in 1..Len(oneline(text)) : LowerTok(oneline(text)[i]) \in
         {"king cobra", "naja philippinensis", "ophiophagus hannah", "naja sp."}

\* load_staff_names
\* input/group_staff.txt holds one display name per line: "Mod"
load_staff_names == {Lower(Strip(n)) : n \in {m \in {<<"Mod">>} : Strip(m) # <<>>}}

commenter_in_staff_list(c, staff) ==
  LET name == oneline(c.commenter) IN name # <<>> /\ Lower(name) \in staff

\* is_admin_like; the structured role/badge fields are absent from the
\* comments postComments returns
is_admin_like(c, staff) == commenter_in_staff_list(c, staff) \/ has_admin_tag(c.text)

\* the first comment, marker or not
choose_first_comment(comments) == comments[1]

\* choose_one_comment_pref_admin_tag (comments is non-empty where it is called)
choose_one_comment_pref_admin_tag(comments) ==
  IF \E i \in 1..Len(comments) : has_admin_tag(comments[i].text)
  THEN comments[CHOOSE i \in 1..Len(comments) :
                  has_admin_tag(comments[i].text) /\
                  \A j \in 1..(i - 1) : ~has_admin_tag(comments[j].text)]
  ELSE comments[1]

\* the decision where a target named by a non-admin comment saves the post
\* although an admin commented without naming one
Classify_non_admin_match_saves(comments, staff) ==
  LET admin_comments == SelectSeq(comments, LAMBDA c : is_admin_like(c, staff))
      admin_snake == SelectSeq(admin_comments, LAMBDA c : text_matches_targets(c.text))
      snake == SelectSeq(comments, LAMBDA c : text_matches_targets(c.text))
  IN IF admin_snake # <<>> THEN "Accepted"
     ELSE IF snake # <<>> THEN "Saved - no admin"
     ELSE IF admin_comments # <<>> THEN "Rejected - w/admin"
     ELSE "Rejected - no admin"

\* The decision of filterPosts.main from the scraped comments
Classify(comments, staff) ==
  LET admin_comments == SelectSeq(comments, LAMBDA c : is_admin_like(c, staff))
      admin_snake == SelectSeq(admin_comments, LAMBDA c : text_matches_targets(c.text))
      non_admin_snake == SelectSeq(comments, LAMBDA c : text_matches_targets(c.text))
  IN IF admin_comments # <<>>
     THEN IF admin_snake # <<>> THEN "Accepted" ELSE "Rejected - w/admin"
     ELSE IF non_admin_snake # <<>> THEN "Saved - no admin" ELSE "Rejected - no admin"

\* the saved posts written to the ledger of the accepted ones
LedgerOf_saved_with_accepted(outcome) ==
  IF outcome \in {"Accepted", "Saved - no admin"} THEN "accepted" ELSE "rejected"

\* postDetails is run for every outcome
NeedsDetails_always(outcome) == TRUE

\* main, lines 265-267 / 308-310: the outcomes whose branch runs postDetails
NeedsDetails(outcome) == outcome \in {"Accepted", "Saved - no admin"}

\* The ledger an outcome is written to
LedgerOf(outcome) ==
  CASE outcome = "Accepted" -> "accepted"
    [] outcome = "Saved - no admin" -> "nonadmin"
    [] OTHER -> "rejected"

HeaderOf(ledger) ==
  IF ledger = "rejected" THEN HdrRejected
  ELSE << <<"post", " ", "url">>, <<"date">>, <<"poster">>, <<"post", " ", "text">>,
          <<"commenter">>, <<"comment", " ", "text">> >>

Dash == <<"-">>

\* a placeholder row for every further comment, repeated or not
PlaceholderRows_every_comment(cs, seen) ==
  [i \in 1..Len(cs) |->
     <<Dash, Dash, Dash, Dash, oneline(cs[i].commenter), oneline(cs[i].text)>>]

\* rows of the non-admin ledger: one full row, then a placeholder row per
\* further distinct (commenter, text)
RECURSIVE PlaceholderRows(_, _)
PlaceholderRows(cs, seen) ==
  IF cs = <<>> THEN <<>>
  ELSE LET k == <<oneline(Head(cs).commenter), oneline(Head(cs).text)>>
       IN IF k \in seen THEN PlaceholderRows(Tail(cs), seen)
          ELSE << <<Dash, Dash, Dash, Dash, k[1], k[2]>> >> \o
               PlaceholderRows(Tail(cs), seen \cup {k})

\* The rows filterPosts.main appends to the outcome ledger
OutcomeRows(outcome, comments, staff, post_url, post_url_norm, pd) ==
  LET admin_comments == SelectSeq(comments, LAMBDA c : is_admin_like(c, staff))
      admin_snake == SelectSeq(admin_comments, LAMBDA c : text_matches_targets(c.text))
      non_admin_snake == SelectSeq(comments, LAMBDA c : text_matches_targets(c.text))
  IN CASE outcome = "Accepted" ->
            LET ch == choose_one_comment_pref_admin_tag(admin_snake)
            IN << <<post_url, oneline(pd.date_iso), oneline(pd.poster), oneline(pd.text),
                    oneline(ch.commenter), oneline(ch.text)>> >>
       [] outcome = "Rejected - w/admin" ->
            LET ch == choose_one_comment_pref_admin_tag(admin_comments)
            IN << <<post_url_norm, oneline(ch.commenter), oneline(ch.text)>> >>
       [] outcome = "Saved - no admin" ->
            LET first == non_admin_snake[1]
                k == <<oneline(first.commenter), oneline(first.text)>>
            IN << <<post_url, oneline(pd.date_iso), oneline(pd.poster), oneline(pd.text),
                    k[1], k[2]>> >> \o
               PlaceholderRows(Tail(non_admin_snake), {k})
       [] OTHER -> << <<post_url_norm, Dash, Dash>> >>

\* log_outcome's row
LogRow(url_norm, scraped_total, status) == <<url_norm, <<scraped_total>>, <<status>>>>


\* ---- external collaborators
\* postDetails.py has not been run
NoPd == [url |-> <<>>, date_iso |-> <<>>, poster |-> <<>>, text |-> <<>>, rc |-> 0]

\* postComments.py reports page.url, which a redirect may have changed
PageURLs(url) == {url, <<"https://", "www.facebook.", "com/login">>}

\* a or b for strings
OrElse(a, b) == IF a # <<>> THEN a ELSE b

\* ---- output lines of filterPosts, as the sets of marker substrings that
\* classify_result_text looks for and that occur in the (lower-cased) line
\* the SKIPPED line names the ledgers that hold the URL
LineSkipped(hits) ==
  {"emoji:skip", "skipped", "already processed"}
    \cup (IF "rejected" \in hits THEN {"rejected"} ELSE {})
    \cup (IF "rejected" \in hits /\ hits # {"rejected"} THEN {" reject"} ELSE {})

MarkerLine(outcome) ==
  CASE outcome = "Accepted" -> {"emoji:green", "accepted!", " accepted"}
    [] outcome = "Saved - no admin" -> {"emoji:orange", "non-admin"}
    [] outcome = "Rejected - w/admin" -> {"emoji:red", "rejected", " reject"}
    [] OTHER -> {"emoji:red", "no admin and no snake"}

\* classify_result_text taking the red mark for a rejection only next to
\* the word "rejected"
classify_result_text_rejected_only(text) ==
  IF text \cap {"emoji:skip", "skipped", "already processed"} # {} THEN "skip"
  ELSE IF text \cap {"emoji:green", "accepted!", " accepted"} # {} THEN "accept"
  ELSE IF text \cap {"emoji:orange", "non-admin", "saved - no admin"} # {} THEN "saved"
  ELSE IF "emoji:red" \in text /\ "rejected" \in text THEN "reject"
  ELSE IF text \cap {"rejected - w/admin", "rejected - no admin"} # {} THEN "reject"
  ELSE IF text \cap {" reject", "x rejected", "denied", "blacklist", "filtered out"} # {}
       THEN "reject"
  ELSE "unknown"

\* run_filters.classify_result_text
classify_result_text(text) ==
  IF text \cap {"emoji:skip", "skipped", "already processed"} # {} THEN "skip"
  ELSE IF text \cap {"emoji:green", "accepted!", " accepted"} # {} THEN "accept"
  ELSE IF text \cap {"emoji:orange", "non-admin", "saved - no admin"} # {} THEN "saved"
  ELSE IF "emoji:red" \in text /\ text \cap {"rejected", "no admin and no snake"} # {}
       THEN "reject"
  ELSE IF text \cap {"rejected - w/admin", "rejected - no admin"} # {} THEN "reject"
  ELSE IF text \cap {" reject", "x rejected", "denied", "blacklist", "filtered out"} # {}
       THEN "reject"
  ELSE "unknown"

\* ------------------------------------------------------------------ state
VARIABLES
  files,   \* FileNames -> file
  fp,      \* filterPosts processes
  rf,      \* the run_filters process
  pipe,    \* stdout lines of the run_filters child not yet read by run_filters
  runs,    \* number of process launches so far
  cr,      \* the scrapePosts process (collect_after_warmup and its locals)
  web,     \* the browser session and the feed page it renders
  cn       \* the URL canonicalizers applied to a pair of input strings

vars == <<files, fp, rf, pipe, runs, cr, web, cn>>

Procs == {1, 2}

\* no canonicalizer has been called
NoCanon == [pc |-> "idle", u1 |-> <<>>, u2 |-> <<>>,
            out1 |-> <<>>, out2 |-> <<>>, again |-> <<>>]

IdleProc == [pc |-> "idle", raw |-> <<>>, child |-> FALSE, comments |-> <<>>,
             pc_url |-> <<>>, outcome |-> "none", pd |-> NoPd, post_url |-> <<>>,
             rc |-> 0,
             hits |-> {}, fetched |-> FALSE, failed |-> FALSE, wrote |-> FALSE]

IdleRf == [pc |-> "idle", headers |-> <<>>, url_col |-> 0, rows |-> <<>>,
           remaining |-> <<>>, i |-> 0, url |-> <<>>, lines |-> {}, acted |-> FALSE,
           decided |-> "unknown", kind |-> "unknown", ok |-> 0, fail |-> 0]

\* scrapePosts not running: the locals of collect_after_warmup, the round
\* bookkeeping (todo, polls, tries, again), the length of the work-list when
\* the run read it (rows0) and how the run ended (exit)
IdleCr == [pc |-> "idle", target_new |-> 0, max_scrolls |-> 0, baseline |-> {},
           seen |-> {}, newly_added |-> 0, stalls |-> 0, last_soft_reload |-> 0,
           i |-> 0, added |-> 0, saw_new |-> FALSE, nudged |-> FALSE,
           todo |-> <<>>, polls |-> 0, tries |-> 0, again |-> FALSE,
           rows0 |-> 0, exit |-> "none"]

\* no browser session
NoWeb == [alive |-> FALSE, dom |-> <<>>, loaded |-> {}, feedAdded |-> 0,
          obs |-> FALSE, crashes |-> 0, lastGrow |-> 0]

\* the pending work-list as the crawler writes it
HdrPending == << <<"post_url">> >>
PendingInit == <<HdrPending, <<U1>>, <<U2>>>>

Init ==
  /\ files = [f \in FileNames |->
                IF f = "pending"
                THEN [exists |-> TRUE, os |-> PendingInit, disk |-> PendingInit]
                ELSE AbsentFile]
  /\ fp = [p \in Procs |-> IdleProc]
  /\ rf = IdleRf
  /\ pipe = <<>>
  /\ runs = 0
  /\ cr = IdleCr
  /\ web = NoWeb
  /\ cn = NoCanon

\* ---------------------------------------------------------- filterPosts.main
post_url_norm(p) == normalize_url(Strip(fp[p].raw))

\* post_url of the Accepted / Saved branches (lines 268 / 311)
post_url(pd_url, pc_url, url_norm) == normalize_url(OrElse(pd_url, OrElse(pc_url, url_norm)))

\* the key written to the outcome ledger and the run-log
LedgerKey(p) ==
  IF fp[p].outcome \in {"Accepted", "Saved - no admin"}
  THEN fp[p].post_url ELSE post_url_norm(p)

\* run_filters is reading the child's output
RfReading == rf.pc \in {"stream", "append_done", "remove", "rewrite"}

\* the child's stdout is a pipe whose reader is gone
BrokenPipe(p) == fp[p].child /\ ~RfReading

\* print(...): to the pipe for the run_filters child, to the terminal otherwise
Emit(p, line) == pipe' = IF fp[p].child THEN Append(pipe, line) ELSE pipe

\* the process has ended with exit code rc; its locals are gone
Ended(p, rc, failed) ==
  [IdleProc EXCEPT !.pc = "exited", !.rc = rc, !.child = fp[p].child, !.failed = failed]

Launch(raw, child) == [IdleProc EXCEPT !.pc = "check", !.raw = raw, !.child = child]

\* python filterPosts.py <url> from a shell
FpStart(p, raw, limit) ==
  /\ fp[p].pc = "idle"
  /\ runs < limit
  /\ fp' = [fp EXCEPT ![p] = Launch(raw, FALSE)]
  /\ runs' = runs + 1
  /\ UNCHANGED <<files, rf, pipe, cr, web, cn>>

\* main, lines 238-245: already_processed and the skip decision
FpCheck(p) ==
  /\ fp[p].pc = "check"
  /\ LET hits == already_processed(files, post_url_norm(p))
     IN fp' = [fp EXCEPT ![p].pc = IF hits # {} THEN "skip_mark" ELSE "comments",
                         ![p].hits = hits]
  /\ UNCHANGED <<files, rf, pipe, runs, cr, web, cn>>

\* main, lines 244-245: one print of an empty line, the SKIPPED line and
\* another empty line, then return
FpSkipMark(p) ==
  /\ fp[p].pc = "skip_mark"
  /\ IF BrokenPipe(p)
     THEN fp' = [fp EXCEPT ![p] = Ended(p, 1, FALSE)] /\ pipe' = pipe
     ELSE /\ fp' = [fp EXCEPT ![p] = Ended(p, 0, FALSE)]
          /\ pipe' = IF fp[p].child
                     THEN pipe \o <<{}, LineSkipped(fp[p].hits), {}>> ELSE pipe
  /\ UNCHANGED <<files, rf, runs, cr, web, cn>>

\* main, lines 250-263 and 303-306: run postComments, classify, print the
\* status block.  ok = FALSE: no JSON in the collaborator's output
\* (run_script_for_json prints the complaint and exits 1)
FpComments(p, ok, comments, page_url) ==
  /\ fp[p].pc = "comments"
  /\ IF BrokenPipe(p)
     THEN /\ fp' = [fp EXCEPT ![p] = Ended(p, 1, ~ok)]
          /\ pipe' = pipe
     ELSE IF ~ok
     THEN /\ fp' = [fp EXCEPT ![p] = Ended(p, 1, TRUE)]
          /\ Emit(p, {})
     ELSE LET outcome == Classify(comments, load_staff_names)
          IN /\ fp' = [fp EXCEPT ![p].pc = IF NeedsDetails(outcome)
                                            THEN "details" ELSE "dedup",
                                 ![p].comments = comments,
                                 ![p].pc_url = page_url,
                                 ![p].outcome = outcome,
                                 ![p].fetched = TRUE]
             /\ Emit(p, {})
  /\ UNCHANGED <<files, rf, runs, cr, web, cn>>

\* main, lines 267-271 / 310-314: run postDetails.  res is "ok", "error"
\* (exit code 2 with the fallback JSON) or "nojson".  scrape_post starts from
\* url = argv[1] and never changes it; on a hard error postDetails.main prints
\* a fallback JSON and exits 2
FpDetails(p, res) ==
  /\ fp[p].pc = "details"
  /\ IF res = "nojson"
     THEN /\ fp' = [fp EXCEPT ![p] = Ended(p, 1, TRUE)]
          /\ IF BrokenPipe(p) THEN pipe' = pipe ELSE Emit(p, {})
     ELSE LET pd == IF res = "ok"
                    THEN [url |-> fp[p].raw, date_iso |-> <<"2024-01-05">>,
                          poster |-> <<"Ann">>, text |-> <<"found", "\n", "this">>,
                          rc |-> 0]
                    ELSE [url |-> fp[p].raw, date_iso |-> <<"today">>, poster |-> <<>>,
                          text |-> <<>>, rc |-> 2]
          IN
          /\ fp' = [fp EXCEPT ![p].pc = "dedup",
                              ![p].pd = [pd EXCEPT !.url = <<>>],
                              ![p].post_url = post_url(pd.url, fp[p].pc_url,
                                                       post_url_norm(p)),
                              ![p].pc_url = <<>>,
                              ![p].failed = (pd.rc # 0)]
          /\ pipe' = pipe
  /\ UNCHANGED <<files, rf, runs, cr, web, cn>>

\* main, lines 275 / 289 / 317 / 343: the de-dup test before the write
FpDedup(p) ==
  /\ fp[p].pc = "dedup"
  /\ fp' = [fp EXCEPT ![p].pc =
              IF url_in_csv(files[LedgerOf(fp[p].outcome)], LedgerKey(p))
              THEN "mark" ELSE "ensure"]
  /\ UNCHANGED <<files, rf, pipe, runs, cr, web, cn>>

\* ensure_csv_with_header, line 166: the existence test
FpEnsure(p) ==
  /\ fp[p].pc = "ensure"
  /\ fp' = [fp EXCEPT ![p].pc =
              IF ~files[LedgerOf(fp[p].outcome)].exists THEN "create" ELSE "append"]
  /\ UNCHANGED <<files, rf, pipe, runs, cr, web, cn>>

\* ensure_csv_with_header, lines 167-169: create the file with its header
FpCreate(p) ==
  /\ fp[p].pc = "create"
  /\ LET l == LedgerOf(fp[p].outcome)
     IN files' = [files EXCEPT ![l] = create_with_header(files[l], HeaderOf(l))]
  /\ fp' = [fp EXCEPT ![p].pc = "append"]
  /\ UNCHANGED <<rf, pipe, runs, cr, web, cn>>

\* ensure_csv_with_header, lines 167-168: the process is killed after
\* open("w") has created the file and before the buffered header reaches it
FpCrashInCreate(p) ==
  /\ fp[p].pc = "create"
  /\ LET l == LedgerOf(fp[p].outcome)
     IN files' = [files EXCEPT ![l] = close(open_w(files[l]))]
  /\ fp' = [fp EXCEPT ![p] = Ended(p, 137, fp[p].failed)]
  /\ UNCHANGED <<rf, pipe, runs, cr, web, cn>>

\* append_rows of the outcome rows
FpAppend(p) ==
  /\ fp[p].pc = "append"
  /\ LET l == LedgerOf(fp[p].outcome)
         rows == OutcomeRows(fp[p].outcome, fp[p].comments, load_staff_names,
                             fp[p].post_url, post_url_norm(p), fp[p].pd)
     IN files' = [files EXCEPT ![l] = append_rows(files[l], rows)]
  /\ fp' = [fp EXCEPT ![p].pc = "mark", ![p].wrote = TRUE]
  /\ UNCHANGED <<rf, pipe, runs, cr, web, cn>>

\* the outcome line (lines 283 / 297 / 337 / 346), printed before log_outcome
FpMark(p) ==
  /\ fp[p].pc = "mark"
  /\ IF BrokenPipe(p)
     THEN fp' = [fp EXCEPT ![p] = Ended(p, 1, fp[p].failed)] /\ pipe' = pipe
     ELSE fp' = [fp EXCEPT ![p].pc = "log_ensure"] /\ Emit(p, MarkerLine(fp[p].outcome))
  /\ UNCHANGED <<files, rf, runs, cr, web, cn>>

\* log_outcome, line 229: the existence test of ensure_csv_with_header
FpLogEnsure(p) ==
  /\ fp[p].pc = "log_ensure"
  /\ fp' = [fp EXCEPT ![p].pc = IF ~files["log"].exists THEN "log_create" ELSE "log_append"]
  /\ UNCHANGED <<files, rf, pipe, runs, cr, web, cn>>

FpLogCreate(p) ==
  /\ fp[p].pc = "log_create"
  /\ files' = [files EXCEPT !["log"] = create_with_header(files["log"], HdrLog)]
  /\ fp' = [fp EXCEPT ![p].pc = "log_append"]
  /\ UNCHANGED <<rf, pipe, runs, cr, web, cn>>

\* log_outcome, line 230, then the print() of an empty line and return
FpLogAppend(p) ==
  /\ fp[p].pc = "log_append"
  /\ files' = [files EXCEPT !["log"] =
                 append_rows(files["log"],
                             <<LogRow(LedgerKey(p), Len(fp[p].comments), fp[p].outcome)>>)]
  /\ IF BrokenPipe(p)
     THEN fp' = [fp EXCEPT ![p] = Ended(p, 1, fp[p].failed)] /\ pipe' = pipe
     ELSE fp' = [fp EXCEPT ![p] = Ended(p, 0, fp[p].failed)] /\ Emit(p, {})
  /\ UNCHANGED <<rf, runs, cr, web, cn>>

\* the process is killed between two of its steps
FpCrash(p) ==
  /\ fp[p].pc \notin {"idle", "exited"}
  /\ fp' = [fp EXCEPT ![p] = Ended(p, 137, fp[p].failed)]
  /\ UNCHANGED <<files, rf, pipe, runs, cr, web, cn>>

\* the shell (or nobody, for an orphaned child) collects the exit status
FpReap(p) ==
  /\ fp[p].pc = "exited"
  /\ ~(fp[p].child /\ RfReading)
  /\ fp' = [fp EXCEPT ![p] = IdleProc]
  /\ pipe' = IF fp[p].child THEN <<>> ELSE pipe
  /\ UNCHANGED <<files, rf, runs, cr, web, cn>>

\* --------------------------------------------------------------- run_filters
\* run_filters._clean_fieldname
rf_clean_fieldname(fn) ==
  Lower(Strip(SubWs(SubCtl(SelectSeq(fn, LAMBDA t : t # "BOM")))))

\* run_filters._find_url_column (used by done_contains): a column index
rf_find_url_column_done(fieldnames) ==
  LET cleaned == [i \in 1..Len(fieldnames) |-> rf_clean_fieldname(fieldnames[i])]
      Exact(w) == {i \in 1..Len(fieldnames) : cleaned[i] = w}
      Loose == {i \in 1..Len(fieldnames) : ContainsUrl(cleaned[i])}
      Min(S) == CHOOSE i \in S : \A j \in S : i <= j
      Max(S) == CHOOSE i \in S : \A j \in S : i >= j
  IN IF fieldnames = <<>> THEN 0
     ELSE IF Exact(<<"post", " ", "url">>) # {} THEN Max(Exact(<<"post", " ", "url">>))
     ELSE IF Exact(<<"url">>) # {} THEN Max(Exact(<<"url">>))
     ELSE IF Exact(<<"link">>) # {} THEN Max(Exact(<<"link">>))
     ELSE IF Exact(<<"post_url">>) # {} THEN Max(Exact(<<"post_url">>))
     ELSE IF Loose # {} THEN Max(Exact(cleaned[Min(Loose)]))
     ELSE 1

\* run_filters.find_url_column (used by read_rows)
rf_find_url_column(headers) ==
  LET low == [i \in 1..Len(headers) |-> Lower(Strip(headers[i]))]
      Preferred == {i \in 1..Len(headers) :
                      low[i] \in {<<"post_url">>, <<"post", " ", "url">>, <<"url">>, <<"link">>}}
      Loose == {i \in 1..Len(headers) : ContainsUrl(low[i])}
      Min(S) == CHOOSE i \in S : \A j \in S : i <= j
  IN IF headers = <<>> THEN 0
     ELSE IF Preferred # {} THEN Min(Preferred)
     ELSE IF Loose # {} THEN Min(Loose)
     ELSE 1

HdrDone == << <<"url">> >>

\* ensure_done_header
ensure_done_header(fr) ==
  IF ~fr.exists \/ fr.os = <<>>
  THEN close(fsync(flush(writerows(open_w(fr), <<HdrDone>>))))
  ELSE fr

\* done_contains
done_contains(fr, url_norm) ==
  IF ~fr.exists \/ fr.os = <<>> THEN FALSE
  ELSE LET col == rf_find_url_column_done(fr.os[1])
       IN \E i \in 2..Len(fr.os) :
            LET v == rf_normalize_url(Strip(Cell(fr.os[i], col)))
            IN v # <<>> /\ v = url_norm

\* append_done_url_now
append_done_url_now(fr, u) ==
  LET norm == rf_normalize_url(u)
      hdr == ensure_done_header(fr)
  IN IF norm = <<>> THEN fr
     ELSE IF done_contains(hdr, norm) THEN hdr
     ELSE close(fsync(flush(writerows(open_a(hdr), << <<norm>> >>))))

\* write_rows_now opening the file for append
write_rows_now_append(fr, headers, rows) ==
  close(fsync(writerows(open_a(fr), <<headers>> \o rows)))

\* write_rows_now; line 185 names f.flush without calling it, so the rows
\* are still in the buffer when os.fsync runs and reach the file at close
write_rows_now(fr, headers, rows) ==
  close(fsync(writerows(open_w(fr), <<headers>> \o rows)))

\* the comparison of the removal filter inverted
Remaining_inverted(rows, url_col, norm) ==
  SelectSeq(rows, LAMBDA r : rf_normalize_url(Cell(r, url_col)) = norm)

\* rows whose URL differs from norm (lines 245 / 254 / 307)
Remaining(rows, url_col, norm) ==
  SelectSeq(rows, LAMBDA r : rf_normalize_url(Cell(r, url_col)) # norm)

\* main, lines 270-286: read the work-list.  The work-list is the crawler's
\* file, a header row and one URL per row; sniff_has_header finds the header
\* of a non-empty file.
RfStart ==
  /\ rf.pc = "idle"
  /\ \A p \in Procs : fp[p].pc = "idle"
  /\ runs < MaxRuns
  /\ runs' = runs + 1
  /\ LET fr == files["pending"]
         has_header == fr.exists /\ fr.os # <<>>
         rows == IF has_header THEN Tail(fr.os) ELSE <<>>
     IN IF rows = <<>>
        THEN rf' = rf
        ELSE rf' = [IdleRf EXCEPT !.pc = "loop", !.headers = fr.os[1],
                                  !.url_col = rf_find_url_column(fr.os[1]),
                                  !.rows = rows, !.remaining = rows, !.i = 1]
  /\ UNCHANGED <<files, fp, pipe, cr, web, cn>>

\* main, lines 288-293, and the Popen of run_and_act_streaming
RfLoop ==
  /\ rf.pc = "loop"
  /\ IF rf.i > Len(rf.rows)
     THEN rf' = IdleRf /\ UNCHANGED <<fp, pipe>>
     ELSE LET url == Strip(Cell(rf.rows[rf.i], rf.url_col))
          IN IF url = <<>>
             THEN rf' = [rf EXCEPT !.i = @ + 1] /\ UNCHANGED <<fp, pipe>>
             ELSE /\ fp[1].pc = "idle"
                  /\ rf' = [rf EXCEPT !.pc = "stream", !.url = url, !.lines = {},
                                      !.acted = FALSE, !.decided = "unknown",
                                      !.kind = "unknown"]
                  /\ fp' = [fp EXCEPT ![1] = Launch(url, TRUE)]
                  /\ pipe' = <<>>
  /\ UNCHANGED <<files, runs, cr, web, cn>>

\* the loop acting on every line that carries a marker
RfReadLine_acts_again ==
  /\ rf.pc = "stream"
  /\ pipe # <<>>
  /\ pipe' = Tail(pipe)
  /\ LET line == Head(pipe)
         full == rf.lines \cup line
         kind == IF classify_result_text(line) # "unknown"
                 THEN classify_result_text(line) ELSE classify_result_text(full)
     IN rf' = IF kind = "unknown"
              THEN [rf EXCEPT !.lines = full]
              ELSE [rf EXCEPT !.lines = full, !.kind = kind,
                              !.pc = IF kind = "skip" THEN "remove" ELSE "append_done"]
  /\ UNCHANGED <<files, fp, runs, cr, web, cn>>

\* run_and_act_streaming, lines 227-241: read one line and classify it
RfReadLine ==
  /\ rf.pc = "stream"
  /\ pipe # <<>>
  /\ pipe' = Tail(pipe)
  /\ LET line == Head(pipe)
         full == rf.lines \cup line
         kind == IF classify_result_text(line) # "unknown"
                 THEN classify_result_text(line) ELSE classify_result_text(full)
     IN rf' = IF rf.acted \/ kind = "unknown"
              THEN [rf EXCEPT !.lines = full]
              ELSE [rf EXCEPT !.lines = full, !.kind = kind,
                              !.pc = IF kind = "skip" THEN "remove" ELSE "append_done"]
  /\ UNCHANGED <<files, fp, runs, cr, web, cn>>

\* line 253: append_done_url_now(url)
RfAppendDone ==
  /\ rf.pc = "append_done"
  /\ files' = [files EXCEPT !["done"] = append_done_url_now(files["done"], rf.url)]
  /\ rf' = [rf EXCEPT !.pc = "remove"]
  /\ UNCHANGED <<fp, pipe, runs, cr, web, cn>>

\* lines 245-246 / 254-255 and the open("w") of write_rows_now
RfRemove ==
  /\ rf.pc = "remove"
  /\ LET new_remaining == Remaining(rf.remaining, rf.url_col, rf_normalize_url(rf.url))
     IN IF Len(new_remaining) # Len(rf.remaining)
        THEN /\ files' = [files EXCEPT !["pending"] =
                            [exists |-> TRUE, os |-> <<>>, disk |-> @.disk]]
             /\ rf' = [rf EXCEPT !.pc = "rewrite"]
        ELSE /\ files' = files
             /\ rf' = [rf EXCEPT !.pc = "stream", !.acted = TRUE, !.decided = rf.kind]
  /\ UNCHANGED <<fp, pipe, runs, cr, web, cn>>

\* the rest of write_rows_now, then lines 248-250 / 257-259
RfRewrite ==
  /\ rf.pc = "rewrite"
  /\ LET new_remaining == Remaining(rf.remaining, rf.url_col, rf_normalize_url(rf.url))
     IN /\ files' = [files EXCEPT !["pending"] =
                       write_rows_now(files["pending"], rf.headers, new_remaining)]
        /\ rf' = [rf EXCEPT !.pc = "stream", !.remaining = new_remaining,
                            !.acted = TRUE, !.decided = rf.kind]
  /\ UNCHANGED <<fp, pipe, runs, cr, web, cn>>

\* the output read so far is consumed, the child may still be running
ChildExited_not_awaited == pipe = <<>>

\* lines 227 and 261: the loop over proc.stdout ends at end of file and
\* proc.wait() returns when the child has exited
ChildExited == pipe = <<>> /\ fp[1].pc = "exited"

\* line 261 and main, lines 299-313: the child has exited and its output is
\* read to the end
RfWait ==
  /\ rf.pc = "stream"
  /\ ChildExited
  /\ LET rc == fp[1].rc
         kind2 == classify_result_text(rf.lines)
         norm == rf_normalize_url(rf.url)
         new_remaining == Remaining(rf.remaining, rf.url_col, norm)
         last_chance == rc = 0 /\ rf.decided = "unknown" /\
                        kind2 \in {"accept", "reject", "saved"}
     IN /\ rf' = [rf EXCEPT !.pc = "loop", !.i = @ + 1,
                            !.ok = IF rc = 0 THEN @ + 1 ELSE @,
                            !.fail = IF rc = 0 THEN @ ELSE @ + 1,
                            !.remaining = IF last_chance THEN new_remaining ELSE @]
        /\ files' = IF last_chance
                    THEN [files EXCEPT
                            !["done"] = append_done_url_now(@, rf.url),
                            !["pending"] =
                               IF Len(new_remaining) # Len(rf.remaining)
                               THEN write_rows_now(@, rf.headers, new_remaining)
                               ELSE @]
                    ELSE files
  /\ fp' = [fp EXCEPT ![1] = IdleProc]
  /\ UNCHANGED <<pipe, runs, cr, web, cn>>

\* lines 315-326: Ctrl-C during the per-candidate loop leaves the loop; the
\* summary is printed and the process ends.  Inside write_rows_now the with
\* block closes the file with the k rows written so far.
RfInterrupt(k) ==
  /\ rf.pc \in {"loop", "stream", "append_done", "remove", "rewrite"}
  /\ rf' = IdleRf
  /\ IF rf.pc = "rewrite"
     THEN LET new_remaining == Remaining(rf.remaining, rf.url_col,
                                         rf_normalize_url(rf.url))
              all == <<rf.headers>> \o new_remaining
          IN /\ k <= Len(all)
             /\ files' = [files EXCEPT !["pending"] =
                             close(writerows(open_w(@), SubSeq(all, 1, k)))]
     ELSE k = 0 /\ files' = files
  /\ UNCHANGED <<fp, pipe, runs, cr, web, cn>>

\* run_filters is killed
RfCrash ==
  /\ rf.pc # "idle"
  /\ rf' = IdleRf
  /\ UNCHANGED <<files, fp, pipe, runs, cr, web, cn>>

\* ================================================================ scrapePosts
\* ---- configuration (lines 31-55), scaled to the size of the modelled feed:
\* the source has STALL_LIMIT 8, NUDGE_TRIES 16, PRUNE_KEEP_LAST 160,
\* MAX_ARTICLES_BEFORE_RELOAD 900, SOFT_RELOAD_EVERY_SCROLLS 1000, and an
\* IDLE_LIMIT_SEC of 18.0 s, which the wait loop spends in polls of 0.5 s;
\* here IDLE_LIMIT_SEC is counted in polls
STALL_LIMIT == 2
IDLE_LIMIT_SEC == 2
NUDGE_TRIES == 2
PRUNE_KEEP_LAST == 3
MAX_ARTICLES_BEFORE_RELOAD == 4
SOFT_RELOAD_EVERY_SCROLLS == 2

\* ---- URL helpers
\* _strip_query_frag: u.split("#", 1)[0], then u.split("?", 1)[0]
strip_query_frag(u) == CutAt(CutAt(u, {"#"}), {"?"})

\* canonicalize_url, one statement of the function per stage: strip, the
\* leading "/" prefix, the scheme (re.sub(r"^http://", "https://", u,
\* flags=re.I)), the host aliases, query and fragment, the trailing slashes
canonicalize_url(u) ==
  IF u = <<>> THEN <<>>
  ELSE CHOOSE r \in
         {RStripSet(q, {"/"}) : q \in
           {strip_query_frag(x) : x \in
             {ReplaceHost(w) : w \in
               {IF a # <<>> /\ Head(a) \in {"http://", "HTTP://"}
                THEN <<"https://">> \o Tail(a) ELSE a : a \in
                 {IF s # <<>> /\ Head(s) = "/"
                  THEN <<"https://", "www.facebook.", "com">> \o s ELSE s : s \in
                   {Strip(u)}}}}}} : TRUE

\* absolutize_href, with USE_MOBILE = True
absolutize_href(href) ==
  IF href = <<>> THEN <<>>
  ELSE IF Head(href) \in Schemes THEN href
  ELSE IF Head(href) = "/" THEN <<"https://", "m.facebook.", "com">> \o href
  ELSE href

\* ---- the feed page
\* href attributes of the links the group page renders: an "about" link and
\* post A at the top of the feed, posts C and D loaded by scrolling
TopOfFeed ==
  << <<"https://", "m.facebook.", "com/groups/g/about">>,
     <<"https://", "m.facebook.", "com/groups/g/posts/1", "/", "?", "ref=x">> >>
FeedMore ==
  {<<"/", "groups/g/permalink/3", "/">>,
   <<"http://", "facebook.", "com/groups/g/posts/4", "#", "c">>}

U3 == <<"https://", "www.facebook.", "com", "/", "groups/g/permalink/3">>
U4 == <<"https://", "www.facebook.", "com/groups/g/posts/4">>

\* POST_PATTERNS.search(h): the tokens holding /posts/, /permalink/ or
\* /photo.php
POST_PATTERNS(h) ==
  \E k \in 1..Len(h) :
    h[k] \in {"com/groups/g/posts/1", "groups/g/permalink/3", "com/groups/g/posts/4"}

\* JS_SNAPSHOT_HREFS: the distinct hrefs of the rendered articles, each cut
\* at its first # and ?
JS_SNAPSHOT_HREFS(dom) ==
  {CutAt(CutAt(dom[k], {"#"}), {"?"}) : k \in 1..Len(dom)} \ {<<>>}

\* the set comprehension of lines 441-445 and 466-470
Discovered(hrefs) ==
  {canonicalize_url(a) : a \in {absolutize_href(h) : h \in {x \in hrefs : POST_PATTERNS(x)}}}

\* sorted(delta): Python's string order on the canonical URLs of the feed
UrlRank(u) ==
  CASE u = U3 -> 1
    [] u = U1 -> 2
    [] u = U2 -> 3
    [] u = U4 -> 4
    [] OTHER -> 5

RECURSIVE sorted(_)
sorted(S) ==
  IF S = {} THEN <<>>
  ELSE LET m == CHOOSE x \in S : \A y \in S : UrlRank(x) <= UrlRank(y)
       IN <<m>> \o sorted(S \ {m})

\* JS_PRUNE_OLD_ARTICLES: keep the last keepLast rendered articles
JS_PRUNE_OLD_ARTICLES(dom, keepLast) ==
  IF Len(dom) <= keepLast THEN dom ELSE SubSeq(dom, Len(dom) - keepLast + 1, Len(dom))

\* ---- CSV helpers
\* detect_url_col: index of the URL column, 0 for None
detect_url_col(fieldnames) ==
  LET cleaned == [k \in 1..Len(fieldnames) |-> Lower(Strip(fieldnames[k]))]
      Exact(w) == {k \in 1..Len(fieldnames) : cleaned[k] = w}
      Loose == {k \in 1..Len(fieldnames) : ContainsUrl(cleaned[k])}
      Min(S) == CHOOSE k \in S : \A j \in S : k <= j
  IN IF fieldnames = <<>> THEN 0
     ELSE IF Exact(<<"post", " ", "url">>) # {} THEN Min(Exact(<<"post", " ", "url">>))
     ELSE IF Exact(<<"post_url">>) # {} THEN Min(Exact(<<"post_url">>))
     ELSE IF Exact(<<"url">>) # {} THEN Min(Exact(<<"url">>))
     ELSE IF Exact(<<"link">>) # {} THEN Min(Exact(<<"link">>))
     ELSE IF Loose # {} THEN Min(Loose)
     ELSE 1

\* ensure_csv_header: no flush or fsync, the header reaches the file at close
ensure_csv_header(fr, header) ==
  IF ~fr.exists \/ fr.os = <<>>
  THEN close(writerows(open_w(fr), << <<header>> >>))
  ELSE fr

\* load_existing_urls reading no file at all
load_existing_urls_none(fr) == {}

\* load_existing_urls
load_existing_urls(fr) ==
  IF ~fr.exists \/ fr.os = <<>> THEN {}
  ELSE UNION {{canonicalize_url(raw) :
                 raw \in {Strip(Cell(fr.os[k], col)) : k \in 2..Len(fr.os)} \ {<<>>}} :
               col \in {detect_url_col(fr.os[1])}}

\* append_one without flush and fsync
append_one_buffered(fr, url_canonical) ==
  close(writerows(open_a(fr), << <<url_canonical>> >>))

\* append_one: open("a"), writerow, flush, fsync, close
append_one(fr, url_canonical) ==
  close(fsync(flush(writerows(open_a(fr), << <<url_canonical>> >>))))

\* ---- the browser session
\* driver.get(start_url) on a live session: a fresh page showing the top of
\* the feed, with no observer
PageLoad(w) ==
  [w EXCEPT !.dom = TopOfFeed, !.loaded = {TopOfFeed[k] : k \in 1..Len(TopOfFeed)},
            !.feedAdded = 0, !.obs = FALSE]

\* JS_START_FEED_OBSERVER: arms the observer once per page
JS_START_FEED_OBSERVER(w) ==
  IF w.obs THEN w ELSE [w EXCEPT !.feedAdded = 0, !.obs = TRUE]

\* JS_RESET_ADDED
JS_RESET_ADDED(w) == [w EXCEPT !.feedAdded = 0]

\* JS_GET_FEED_COUNTS(...).get("added", 0); {} when the call raises
AddedCount(w) == IF w.alive THEN w.feedAdded ELSE 0

\* soft_reload: every exception is swallowed
soft_reload(w) ==
  IF w.alive THEN JS_RESET_ADDED(JS_START_FEED_OBSERVER(PageLoad(w))) ELSE w

\* recreate_driver_with_cookies, driver.get(start_url), JS_START_FEED_OBSERVER
\* (lines 507-510 and 528-531)
NewSession(w) == JS_START_FEED_OBSERVER(PageLoad([w EXCEPT !.alive = TRUE]))

\* the session after driver.quit()
Quit(w) == [NoWeb EXCEPT !.crashes = w.crashes, !.lastGrow = w.lastGrow]

CrRunning == cr.pc \notin {"idle", "finished", "aborted"}

\* ---- the environment of the crawler
\* the page loads one more post and the observer, if armed, counts it;
\* lastGrow is the round this happens in, the coming round when the loop is
\* between two rounds
FeedGrow(h) ==
  /\ CrRunning
  /\ web.alive
  /\ h \notin web.loaded
  /\ web' = [web EXCEPT !.dom = Append(@, h), !.loaded = @ \cup {h},
                        !.feedAdded = IF web.obs THEN @ + 1 ELSE @,
                        !.lastGrow = cr.i + 1]
  /\ UNCHANGED <<files, fp, rf, pipe, runs, cr, cn>>

\* the tab crashes or the session is deleted: every later driver call raises
\* WebDriverException until the driver is recreated
WebCrash ==
  /\ CrRunning
  /\ web.alive
  /\ web.crashes < MaxCrashes
  /\ web' = [web EXCEPT !.alive = FALSE, !.crashes = @ + 1]
  /\ UNCHANGED <<files, fp, rf, pipe, runs, cr, cn>>

\* ---- scrapePosts.main / collect_after_warmup
\* the run has ended: main's finally quits the driver
Over(c, pc, exit) ==
  [IdleCr EXCEPT !.pc = pc, !.exit = exit, !.target_new = c.target_new,
                 !.max_scrolls = c.max_scrolls, !.i = c.i,
                 !.newly_added = c.newly_added, !.stalls = c.stalls,
                 !.baseline = c.baseline, !.rows0 = c.rows0]

CrEnd(pc, exit) ==
  /\ cr' = Over(cr, pc, exit)
  /\ web' = Quit(web)

\* the loop counter left as it is
NextScroll_stuck(i) == i

\* the next value of the loop counter (line 574)
NextScroll(i) == i + 1

\* python scrapePosts.py: main up to the first snapshot (lines 581-438):
\* make_driver, login, warmup_scrolls with PRE_SCROLL_ROUNDS = 0
CrStart(target_new, max_scrolls) ==
  /\ cr.pc = "idle"
  /\ rf.pc = "idle"
  /\ \A p \in Procs : fp[p].pc \in {"idle", "exited"}
  /\ cr' = [IdleCr EXCEPT !.pc = "baseline", !.target_new = target_new,
                          !.max_scrolls = max_scrolls,
                          !.rows0 = Len(files["pending"].os)]
  /\ web' = NewSession([web EXCEPT !.lastGrow = 0])
  /\ UNCHANGED <<files, fp, rf, pipe, runs, cn>>

\* line 452 leaving the baseline out of the seen-set
SeenAtStart_no_baseline(existing, done, baseline) == existing \cup done

\* line 452: seen = set(existing) | set(done) | set(baseline)
SeenAtStart(existing, done, baseline) == existing \cup done \cup baseline

\* lines 440-461: the baseline snapshot, the two headers, the seen-set
CrBaseline ==
  /\ cr.pc = "baseline"
  /\ IF ~web.alive
     THEN CrEnd("aborted", "error") /\ files' = files
     ELSE \E baseline \in {Discovered(JS_SNAPSHOT_HREFS(web.dom))},
             out \in {ensure_csv_header(files["pending"], <<"post_url">>)},
             don \in {ensure_csv_header(files["done"], <<"url">>)} :
          \E existing \in {load_existing_urls(out)},
             done \in {load_existing_urls(don)} :
             /\ files' = [files EXCEPT !["pending"] = out, !["done"] = don]
             /\ cr' = [cr EXCEPT !.pc = "round", !.baseline = baseline,
                                 !.seen = SeenAtStart(existing, done, baseline),
                                 !.rows0 = Len(out.os),
                                 !.newly_added = 0, !.stalls = 0, !.i = 0,
                                 !.last_soft_reload = 0 - SOFT_RELOAD_EVERY_SCROLLS]
             /\ web' = JS_START_FEED_OBSERVER(web)
  /\ UNCHANGED <<fp, rf, pipe, runs, cn>>

\* lines 481-497: the loop test, the proactive soft reload, the prune
CrRound ==
  /\ cr.pc = "round"
  /\ IF cr.i >= cr.max_scrolls
     THEN CrEnd("finished", "cap")
     ELSE LET article_count == IF web.alive THEN Len(web.dom) ELSE 0
              reload == \/ (cr.i - cr.last_soft_reload) >= SOFT_RELOAD_EVERY_SCROLLS
                        \/ article_count >= MAX_ARTICLES_BEFORE_RELOAD
              w == IF reload THEN soft_reload(web) ELSE web
          IN /\ web' = IF w.alive
                       THEN [w EXCEPT !.dom = JS_PRUNE_OLD_ARTICLES(@, PRUNE_KEEP_LAST)]
                       ELSE w
             /\ cr' = [cr EXCEPT !.pc = "collect",
                                 !.last_soft_reload = IF reload THEN cr.i ELSE @]
  /\ UNCHANGED <<files, fp, rf, pipe, runs, cn>>

\* collect_now, lines 465-471 (and line 478: added = len(delta)); a dead
\* session raises, into the hard restart of lines 501-511 the first time and
\* out of the function the second time (line 512)
CrCollect ==
  /\ cr.pc = "collect"
  /\ IF ~web.alive
     THEN IF cr.again
          THEN CrEnd("aborted", "error")
          ELSE cr' = [cr EXCEPT !.pc = "restart"] /\ web' = web
     ELSE \E delta \in {Discovered(JS_SNAPSHOT_HREFS(web.dom)) \ cr.seen} :
             /\ cr' = [cr EXCEPT !.pc = IF delta = {} THEN "target" ELSE "append",
                                 !.todo = sorted(delta),
                                 !.added = Cardinality(delta)]
             /\ web' = web
  /\ UNCHANGED <<files, fp, rf, pipe, runs, cn>>

\* collect_now, line 474: append_one(OUT_CSV, u)
CrAppendOne ==
  /\ cr.pc = "append"
  /\ files' = [files EXCEPT !["pending"] = append_one(@, Head(cr.todo))]
  /\ cr' = [cr EXCEPT !.pc = "count"]
  /\ UNCHANGED <<fp, rf, pipe, runs, web, cn>>

\* collect_now, lines 475-476: seen.add(u); newly_added += 1
CrCount ==
  /\ cr.pc = "count"
  /\ cr' = [cr EXCEPT !.seen = @ \cup {Head(cr.todo)},
                      !.newly_added = @ + 1,
                      !.todo = Tail(@),
                      !.pc = IF Tail(cr.todo) = <<>> THEN "target" ELSE "append"]
  /\ UNCHANGED <<files, fp, rf, pipe, runs, web, cn>>

\* a recovery that starts the stall count afresh
Recovered_resets_stalls(c) ==
  IF c.pc = "restart"
  THEN [c EXCEPT !.pc = "collect", !.again = TRUE, !.last_soft_reload = c.i, !.stalls = 0]
  ELSE [c EXCEPT !.pc = "wait", !.stalls = 0]

\* the locals after a hard restart: line 511 sets last_soft_reload after the
\* restart of collect_now, which is then called again (line 512); after the
\* restart of the scroll the round goes on to the idle wait
Recovered(c) ==
  IF c.pc = "restart"
  THEN [c EXCEPT !.pc = "collect", !.again = TRUE, !.last_soft_reload = c.i]
  ELSE [c EXCEPT !.pc = "wait"]

\* the hard restart: lines 503-511 after collect_now, lines 524-531 after
\* the scroll; recreate_driver_with_cookies may itself raise
CrRestart(ok) ==
  /\ cr.pc \in {"restart", "restart2"}
  /\ IF ~ok
     THEN CrEnd("aborted", "error")
     ELSE /\ web' = NewSession(web)
          /\ cr' = Recovered(cr)
  /\ UNCHANGED <<files, fp, rf, pipe, runs, cn>>

\* lines 516-518: the target test
CrTarget ==
  /\ cr.pc = "target"
  /\ IF cr.target_new # 0 /\ cr.newly_added >= cr.target_new
     THEN CrEnd("finished", "target")
     ELSE cr' = [cr EXCEPT !.pc = "scroll"] /\ web' = web
  /\ UNCHANGED <<files, fp, rf, pipe, runs, cn>>

\* lines 520-523: window.scrollTo(0, document.body.scrollHeight)
CrScroll ==
  /\ cr.pc = "scroll"
  /\ cr' = [cr EXCEPT !.pc = IF web.alive THEN "wait" ELSE "restart2"]
  /\ UNCHANGED <<files, fp, rf, pipe, runs, web, cn>>

\* lines 535-545: one poll of the idle wait; the wait ends on growth or
\* when IDLE_LIMIT_SEC has passed
CrPoll ==
  /\ cr.pc = "wait"
  /\ IF AddedCount(web) > 0
     THEN /\ cr' = [cr EXCEPT !.pc = "stall", !.saw_new = TRUE, !.polls = 0]
          /\ web' = JS_RESET_ADDED(web)
     ELSE /\ cr' = IF cr.polls + 1 >= IDLE_LIMIT_SEC
                   THEN [cr EXCEPT !.pc = "nudge", !.polls = 0]
                   ELSE [cr EXCEPT !.polls = @ + 1]
          /\ web' = web
  /\ UNCHANGED <<files, fp, rf, pipe, runs, cn>>

\* lines 547-563: one pass of the nudge loop
CrNudge ==
  /\ cr.pc = "nudge"
  /\ IF ~web.alive
     THEN /\ cr' = [cr EXCEPT !.pc = "stall", !.tries = 0]
          /\ web' = soft_reload(web)
     ELSE IF AddedCount(web) > 0
     THEN /\ cr' = [cr EXCEPT !.pc = "stall", !.nudged = TRUE, !.tries = 0]
          /\ web' = JS_RESET_ADDED(web)
     ELSE /\ cr' = IF cr.tries + 1 >= NUDGE_TRIES
                   THEN [cr EXCEPT !.pc = "stall", !.tries = 0]
                   ELSE [cr EXCEPT !.tries = @ + 1]
          /\ web' = web
  /\ UNCHANGED <<files, fp, rf, pipe, runs, cn>>

\* the locals of one round, dead once the round is over
NextRound(c) ==
  [c EXCEPT !.pc = "round", !.i = NextScroll(@), !.added = 0, !.saw_new = FALSE,
            !.nudged = FALSE, !.again = FALSE]

\* lines 565-575: the stall rule and i += 1
CrStall ==
  /\ cr.pc = "stall"
  /\ IF cr.added = 0 /\ ~cr.saw_new
     THEN IF cr.stalls + 1 >= STALL_LIMIT
          THEN /\ cr' = Over([cr EXCEPT !.stalls = @ + 1], "finished", "stall")
               /\ web' = Quit(web)
          ELSE /\ cr' = NextRound([cr EXCEPT !.stalls = @ + 1])
               /\ web' = web
     ELSE /\ cr' = NextRound([cr EXCEPT !.stalls = 0])
          /\ web' = web
  /\ UNCHANGED <<files, fp, rf, pipe, runs, cn>>

\* the scrapePosts process is killed
CrKill ==
  /\ CrRunning
  /\ CrEnd("aborted", "killed")
  /\ UNCHANGED <<files, fp, rf, pipe, runs, cn>>

\* ---- a crawl run on its own
\* the ledgers a crawl run starts from: none yet, or a work-list holding
\* post 3 and a done-list holding post 4, left by earlier runs
InitCrawl ==
  /\ \E resumed \in BOOLEAN :
       files = [f \in FileNames |->
                  IF resumed /\ f = "pending"
                  THEN [exists |-> TRUE, os |-> <<HdrPending, <<U3>>>>,
                        disk |-> <<HdrPending, <<U3>>>>]
                  ELSE IF resumed /\ f = "done"
                  THEN [exists |-> TRUE, os |-> <<HdrDone, <<U4>>>>,
                        disk |-> <<HdrDone, <<U4>>>>]
                  ELSE AbsentFile]
  /\ fp = [p \in Procs |-> IdleProc]
  /\ rf = IdleRf
  /\ pipe = <<>>
  /\ runs = 0
  /\ cr = IdleCr
  /\ web = NoWeb
  /\ cn = NoCanon

CrStep ==
  \/ \E t \in {0, 1} : CrStart(t, MaxScrolls)    \* target_new; 0 is "no target"
  \/ CrBaseline
  \/ CrRound
  \/ CrCollect
  \/ CrAppendOne
  \/ CrCount
  \/ \E ok \in BOOLEAN : CrRestart(ok)
  \/ CrTarget
  \/ CrScroll
  \/ CrPoll
  \/ CrNudge
  \/ CrStall

SpecCrawl ==
  /\ InitCrawl
  /\ [][\/ CrStep
        \/ CrKill
        \/ \E h \in FeedMore : FeedGrow(h)
        \/ WebCrash]_vars

\* the scrapePosts process is scheduled: whenever it can take a step it
\* eventually does
SpecCrawlFair == SpecCrawl /\ WF_vars(CrStep)

\* ---- scrapePosts_firefox.collect.  Its CSV and URL helpers are those of
\* scrapePosts.py, line for line; the observer script is the same.
\* lines 194-203: the start page, the observer, the baseline, the two
\* headers, the seen-set
FfStart(target_new, max_scrolls) ==
  /\ cr.pc = "idle"
  /\ \E w \in {NewSession([web EXCEPT !.lastGrow = 0])},
        out \in {ensure_csv_header(files["pending"], <<"post_url">>)},
        don \in {ensure_csv_header(files["done"], <<"url">>)} :
       /\ web' = w
       /\ files' = [files EXCEPT !["pending"] = out, !["done"] = don]
       /\ cr' = [IdleCr EXCEPT !.pc = "ff_collect", !.target_new = target_new,
                               !.max_scrolls = max_scrolls, !.rows0 = Len(out.os),
                               !.baseline = Discovered(JS_SNAPSHOT_HREFS(w.dom)),
                               !.seen = load_existing_urls(out) \cup load_existing_urls(don)
                                          \cup Discovered(JS_SNAPSHOT_HREFS(w.dom))]
  /\ UNCHANGED <<fp, rf, pipe, runs, cn>>

\* the for statement of line 204 taking its next value, or running out:
\* "Done." and main's finally
FfContinue(c, w) ==
  IF c.i + 1 >= c.max_scrolls
  THEN cr' = Over([c EXCEPT !.i = @ + 1], "finished", "cap") /\ web' = Quit(w)
  ELSE cr' = [c EXCEPT !.pc = "ff_collect", !.i = @ + 1, !.saw_new = FALSE,
                       !.tries = 0, !.added = 0] /\ web' = w

\* lines 229-236: the scroll raised; Firefox is restarted and the loop
\* continues, unless the restart raises as well
FfRecover(ok) ==
  IF ok THEN FfContinue(cr, NewSession(web)) ELSE CrEnd("aborted", "error")

\* lines 206-215: the snapshot (js() turns a dead session into no hrefs),
\* the appends of the new URLs in sorted order, the target test
FfCollect ==
  /\ cr.pc = "ff_collect"
  /\ \E delta \in {Discovered(IF web.alive THEN JS_SNAPSHOT_HREFS(web.dom) ELSE {}) \ cr.seen} :
       LET RECURSIVE AppendAll(_, _)
           AppendAll(fr, todo) ==
             IF todo = <<>> THEN fr ELSE AppendAll(append_one(fr, Head(todo)), Tail(todo))
           new_count == cr.newly_added + Cardinality(delta)
       IN /\ files' = [files EXCEPT !["pending"] = AppendAll(@, sorted(delta))]
          /\ IF cr.target_new # 0 /\ new_count >= cr.target_new
             THEN /\ cr' = Over([cr EXCEPT !.newly_added = new_count], "finished", "target")
                  /\ web' = Quit(web)
             ELSE /\ cr' = [cr EXCEPT !.pc = "ff_scroll", !.seen = @ \cup delta,
                                      !.newly_added = new_count,
                                      !.added = Cardinality(delta),
                                      !.saw_new = delta # {}]
                  /\ web' = web
  /\ UNCHANGED <<fp, rf, pipe, runs, cn>>

\* lines 217-220: scrollTo, the pause, the counts; the nudge loop is entered
\* when the observer's count is 0 and the round found no new URL
FfScroll ==
  /\ cr.pc = "ff_scroll"
  /\ IF ~web.alive
     THEN \E ok \in BOOLEAN : FfRecover(ok)
     ELSE IF AddedCount(web) = 0 /\ ~cr.saw_new
     THEN cr' = [cr EXCEPT !.pc = "ff_nudge", !.tries = 0] /\ web' = web
     ELSE FfContinue(cr, web)
  /\ UNCHANGED <<files, fp, rf, pipe, runs, cn>>

\* lines 221-227: one pass of the nudge loop; its else clause is the
\* end-of-feed outcome
FfNudge ==
  /\ cr.pc = "ff_nudge"
  /\ IF ~web.alive
     THEN \E ok \in BOOLEAN : FfRecover(ok)
     ELSE IF AddedCount(web) > 0
     THEN FfContinue(cr, web)
     ELSE IF cr.tries + 1 >= NUDGE_TRIES
     THEN CrEnd("finished", "end_of_feed")
     ELSE cr' = [cr EXCEPT !.tries = @ + 1] /\ web' = web
  /\ UNCHANGED <<files, fp, rf, pipe, runs, cn>>

\* a run of the Firefox crawler on its own
SpecFirefox ==
  /\ InitCrawl
  /\ [][\/ \E t \in {0, 1} : FfStart(t, MaxScrolls)
        \/ FfCollect
        \/ FfScroll
        \/ FfNudge
        \/ \E h \in FeedMore : FeedGrow(h)
        \/ WebCrash]_vars

\* ---- the orchestrated pipeline: run_filters with its child, or
\* filterPosts run by hand while run_filters is not running
FpStep(p) ==
  \/ FpCheck(p)
  \/ FpSkipMark(p)
  \/ \E ok \in BOOLEAN, c \in CommentLists(fp[p].raw) :
       \E u \in PageURLs(fp[p].raw) : FpComments(p, ok, c, u)
  \/ \E res \in {"ok", "error", "nojson"} : FpDetails(p, res)
  \/ FpDedup(p)
  \/ FpEnsure(p)
  \/ FpCreate(p)
  \/ FpAppend(p)
  \/ FpMark(p)
  \/ FpLogEnsure(p)
  \/ FpLogCreate(p)
  \/ FpLogAppend(p)
  \/ FpCrash(p)
  \/ FpReap(p)

Next ==
  \/ \E raw \in DirectURLs : rf.pc = "idle" /\ FpStart(1, raw, MaxRuns)
  \/ FpStep(1)
  \/ RfStart
  \/ RfLoop
  \/ RfReadLine
  \/ RfAppendDone
  \/ RfRemove
  \/ RfRewrite
  \/ RfWait
  \/ \E k \in 0..Len(PendingInit) : RfInterrupt(k)
  \/ RfCrash

Spec == Init /\ [][Next]_vars

\* ---- the orchestrated pipeline, with kills inside the creation of a ledger
SpecTorn == Init /\ [][Next \/ FpCrashInCreate(1)]_vars

\* ---- the orchestrated pipeline, with os.fsync failing in append_done_url_now
\* lines 84-90 when os.fsync raises: the bare "except: pass" drops the error,
\* the with block closes the file and append_done_url_now returns
RfAppendDoneSyncError ==
  /\ rf.pc = "append_done"
  /\ rf_normalize_url(rf.url) # <<>>
  /\ ~done_contains(ensure_done_header(files["done"]), rf_normalize_url(rf.url))
  /\ files' = [files EXCEPT !["done"] =
                 close(flush(writerows(open_a(ensure_done_header(@)),
                                       << <<rf_normalize_url(rf.url)>> >>)))]
  /\ rf' = [rf EXCEPT !.pc = "remove"]
  /\ UNCHANGED <<fp, pipe, runs, cr, web, cn>>

SpecIo == Init /\ [][Next \/ RfAppendDoneSyncError]_vars

\* ---- two filterPosts processes started by hand, racing
FpStepRace(p) ==
  \/ \E raw \in DirectURLs : FpStart(p, raw, MaxRaceRuns)
  \/ FpCheck(p)
  \/ FpSkipMark(p)
  \/ \E ok \in BOOLEAN, c \in CommentLists(fp[p].raw) :
       \E u \in PageURLs(fp[p].raw) : FpComments(p, ok, c, u)
  \/ \E res \in {"ok", "error", "nojson"} : FpDetails(p, res)
  \/ FpDedup(p)
  \/ FpEnsure(p)
  \/ FpCreate(p)
  \/ FpAppend(p)
  \/ FpMark(p)
  \/ FpLogEnsure(p)
  \/ FpLogCreate(p)
  \/ FpLogAppend(p)
  \/ FpReap(p)

SpecRace == Init /\ [][\E p \in Procs : FpStepRace(p)]_vars

\* ---- filterPosts run by hand on a post of the group, then a crawl run
\* the URL of post 4 as copied from the mobile site

InitHist ==
  /\ files = [f \in FileNames |-> AbsentFile]
  /\ fp = [p \in Procs |-> IdleProc]
  /\ rf = IdleRf
  /\ pipe = <<>>
  /\ runs = 0
  /\ cr = IdleCr
  /\ web = NoWeb
  /\ cn = NoCanon

SpecHist ==
  /\ InitHist
  /\ [][\/ cr.pc = "idle" /\ FpStart(1, <<"https://", "m.facebook.", "com/groups/g/posts/4", "/">>, MaxRuns)
        \/ FpStep(1)
        \/ CrStart(0, MaxScrolls)
        \/ CrBaseline
        \/ CrRound
        \/ CrCollect
        \/ CrAppendOne
        \/ CrCount
        \/ CrTarget
        \/ CrScroll
        \/ CrPoll
        \/ CrNudge
        \/ CrStall
        \/ \E h \in FeedMore : FeedGrow(h)]_vars

\* ---- one filterPosts run on a post not yet in any ledger, for every
\* comment list postComments may return, both collaborators succeeding
SpecClassify ==
  /\ InitHist
  /\ [][\/ FpStart(1, U1v, 1)
        \/ FpCheck(1)
        \/ \E n \in 0..MaxComments :
             \E c \in [1..n -> {CAdminSnake, CAdminOnly, CSnake, CSnake2, CPlain, CStaffSnake,
                                [commenter |-> <<"Jane">>,
                                 text |-> <<"#Admin", " ", "noted">>]}] :
               FpComments(1, TRUE, c, U1v)
        \/ FpDetails(1, "ok")
        \/ FpDedup(1)
        \/ FpEnsure(1)
        \/ FpCreate(1)
        \/ FpAppend(1)
        \/ FpMark(1)
        \/ FpLogEnsure(1)
        \/ FpLogCreate(1)
        \/ FpLogAppend(1)]_vars

\* ---- the three URL canonicalizers, called on input strings
\* filterPosts.normalize_url, run_filters.normalize_url and
\* scrapePosts.canonicalize_url called on the two inputs
CnCanon ==
  /\ cn.pc = "in"
  /\ cn' = [cn EXCEPT !.pc = "once",
                      !.out1 = <<normalize_url(cn.u1), rf_normalize_url(cn.u1),
                                 canonicalize_url(cn.u1)>>,
                      !.out2 = <<normalize_url(cn.u2), rf_normalize_url(cn.u2),
                                 canonicalize_url(cn.u2)>>]
  /\ UNCHANGED <<files, fp, rf, pipe, runs, cr, web>>

\* each canonicalizer called on its own result for the first input
CnAgain ==
  /\ cn.pc = "once"
  /\ cn' = [cn EXCEPT !.pc = "twice",
                      !.again = <<normalize_url(cn.out1[1]), rf_normalize_url(cn.out1[2]),
                                  canonicalize_url(cn.out1[3])>>]
  /\ UNCHANGED <<files, fp, rf, pipe, runs, cr, web>>

\* ---- the text, header and URL helpers, called on inputs
\* a text of at most MaxText tokens for oneline: a word, stylized letters,
\* the whitespace characters; or the header row of a ledger of one or two
\* columns for _find_url_column and url_in_csv, the ledger holding one row
\* with the URL of post 1 in its first column and that of post 2 in its second;
\* or the comment blocks of a page, at most MaxBlocks, and max_comments;
\* or the data rows, at most MaxRows, of a pending list with the columns
\* post_url and note, and the URL of the candidate that has been decided;
\* or the URLs of at most MaxCalls calls of append_done_url_now, with the
\* done_urls.csv they start from: none, an empty one, the crawler's;
\* or, for the canonicalizers, two spellings u1 and u2 of one post: same
\* scheme and path, any host alias, up to MaxSlashes trailing slashes, with or
\* without query and fragment; or two spellings of one relative href; or twice
\* the same string with white space at its ends or inside, or made of slashes
InitPure ==
  /\ files = [f \in FileNames |-> AbsentFile]
  /\ fp = [p \in Procs |-> IdleProc]
  /\ rf = IdleRf
  /\ pipe = <<>>
  /\ runs = 0
  /\ cr = IdleCr
  /\ web = NoWeb
  /\ \/ \E n \in 0..MaxText :
          \E s \in [1..n -> {"a", "fancy-naja", " ", "\t", "\n", "\r", "\f"}] :
            cn = [NoCanon EXCEPT !.pc = "text", !.u1 = s]
     \/ \E n \in 1..2 :
          \E h \in [1..n -> {<<"BOM", "Post", "\t", " ", "URL">>, <<"url">>, <<" ", "URL">>,
                             <<"page", " ", "url">>, <<"post_url">>, <<"link">>,
                             <<"commenter">>}] :
            cn = [NoCanon EXCEPT !.pc = "header", !.u1 = h]
     \/ \E n \in 0..MaxBlocks, max_comments \in 0..MaxComments :
          \E b \in [1..n -> {[visible |-> TRUE, belongs |-> TRUE, commenter |-> <<"Ann">>, text |-> <<"hi">>],
                             [visible |-> TRUE, belongs |-> TRUE, commenter |-> <<"Ann">>, text |-> <<>>],
                             [visible |-> TRUE, belongs |-> TRUE, commenter |-> <<>>, text |-> <<"hi">>],
                             [visible |-> TRUE, belongs |-> TRUE, commenter |-> <<>>, text |-> <<>>],
                             [visible |-> FALSE, belongs |-> TRUE, commenter |-> <<"Bob">>, text |-> <<"yo">>],
                             [visible |-> TRUE, belongs |-> FALSE, commenter |-> <<"Bob">>, text |-> <<"yo">>]}] :
            cn = [NoCanon EXCEPT !.pc = "blocks", !.u1 = b, !.u2 = <<max_comments>>]
     \/ \E n \in 0..MaxCalls :
          \E us \in [1..n -> {<<"https://", "m.facebook.", "com/groups/g/posts/1", "/", "?", "ref=x">>,
                              <<"https://", "www.facebook.", "com/groups/g/posts/1">>,
                              <<"https://", "facebook.", "com/groups/g/posts/1", "#", "c">>,
                              <<"https://", "www.facebook.", "com/groups/g/posts/1", "/", " ", "?", "ref=x">>,
                              <<"https://", "www.facebook.", "com/groups/g/posts/4", "/">>,
                              <<"/">>, <<>>}],
             fr \in {AbsentFile, [exists |-> TRUE, os |-> <<>>, disk |-> <<>>],
                     [exists |-> TRUE, os |-> <<HdrDone, <<U4>>>>, disk |-> <<HdrDone, <<U4>>>>]} :
            cn = [NoCanon EXCEPT !.pc = "calls", !.u1 = us, !.out1 = <<fr>>]
     \/ \E n \in 1..MaxRows :
          \E rows \in [1..n -> {<<<<"https://", "m.facebook.", "com/groups/g/posts/1", "/", "?", "ref=x">>, <<"a">>>>,
                                <<<<"https://", "www.facebook.", "com/groups/g/posts/1">>, <<"b">>>>,
                                <<<<"https://", "www.facebook.", "com/groups/g/posts/2">>, <<"a">>>>,
                                <<<<"https://", "www.facebook.", "com/groups/g/posts/4", "#", "c">>, <<"c">>>>,
                                <<<<>>, <<"d">>>>}],
             url \in {<<"https://", "www.facebook.", "com/groups/g/posts/1">>,
                      <<"https://", "m.facebook.", "com/groups/g/posts/2", "/">>,
                      <<"https://", "www.facebook.", "com/groups/g/posts/4", "#", "c">>} :
            cn = [NoCanon EXCEPT !.pc = "rows", !.u1 = rows, !.u2 = url]
     \/ LET Tails == {<<>>, <<"?", "ref=x">>, <<"#", "c">>,
                      <<"?", "ref=x", "#", "c">>, <<"#", "c", "?", "ref=x">>}
            Stems == {{<<sch, h, path>> : h \in {"m.facebook.", "facebook.", "www.facebook."}} :
                        sch \in Schemes,
                        path \in {"com/groups/g/posts/1", "com/groups/g/permalink/3"}}
                     \cup {{<<"/", "groups/g/permalink/3">>}}
            Odd == {<<>>, <<" ">>, <<"/", "/">>,
                    <<" ", "https://", "m.facebook.", "com/groups/g/posts/1", "/", "\n">>,
                    <<"https://", "www.facebook.", "com/groups/g/posts/1", "/", " ", "?", "ref=x">>,
                    <<"https://", "www.facebook.", "com/groups/g/posts/1", "/", "\n", "#", "c">>,
                    <<"https://", "www.facebook.", "com/groups/g/posts/1", "?", "ref=x", "\n", "c">>}
        IN \/ \E S \in Stems : \E a \in S, b \in S :
                \E n1 \in 0..MaxSlashes, n2 \in 0..MaxSlashes, t1 \in Tails, t2 \in Tails :
                  cn = [NoCanon EXCEPT !.pc = "in",
                                       !.u1 = a \o [i \in 1..n1 |-> "/"] \o t1,
                                       !.u2 = b \o [i \in 1..n2 |-> "/"] \o t2]
           \/ \E u \in Odd : cn = [NoCanon EXCEPT !.pc = "in", !.u1 = u, !.u2 = u]

\* postComments.scrape_comments from "Filter to blocks that belong to this
\* post" on.  A block is [visible, belongs, commenter, text]: is_visible(),
\* block_belongs_to_post(blk, post_id), and what extract_commenter and
\* extract_comment_text return for it, <<>> standing for None (both helpers
\* return None or a non-blank string).  The result is out["comments"].
scrape_comments_no_dedupe(blocks, max_comments) ==
  LET min(a, b) == IF a <= b THEN a ELSE b
      N == min(Len(blocks), max_comments * 6)
      belonging == SelectSeq(SubSeq(blocks, 1, N), LAMBDA b : b.visible /\ b.belongs)
      filtered == IF belonging # <<>> THEN belonging
                  ELSE SelectSeq(SubSeq(blocks, 1, min(Len(blocks), max_comments * 2)),
                                 LAMBDA b : b.visible)
      RECURSIVE Extract(_, _)
      Extract(rest, results) ==
        IF rest = <<>> THEN results
        ELSE LET blk == Head(rest)
                 r2 == IF Strip(blk.commenter) # <<>> \/ Strip(blk.text) # <<>>
                       THEN Append(results, [commenter |-> blk.commenter, text |-> blk.text])
                       ELSE results
             IN IF Len(r2) >= max_comments THEN r2 ELSE Extract(Tail(rest), r2)
  IN Extract(filtered, <<>>)

scrape_comments(blocks, max_comments) ==
  LET min(a, b) == IF a <= b THEN a ELSE b
      N == min(Len(blocks), max_comments * 6)
      belonging == SelectSeq(SubSeq(blocks, 1, N), LAMBDA b : b.visible /\ b.belongs)
      filtered == IF belonging # <<>> THEN belonging
                  ELSE SelectSeq(SubSeq(blocks, 1, min(Len(blocks), max_comments * 2)),
                                 LAMBDA b : b.visible)
      RECURSIVE Extract(_, _)
      Extract(rest, results) ==
        IF rest = <<>> THEN results
        ELSE LET blk == Head(rest)
                 r2 == IF Strip(blk.commenter) # <<>> \/ Strip(blk.text) # <<>>
                       THEN Append(results, [commenter |-> blk.commenter, text |-> blk.text])
                       ELSE results
             IN IF Len(r2) >= max_comments THEN r2 ELSE Extract(Tail(rest), r2)
      RECURSIVE Dedupe(_, _, _)
      Dedupe(rest, seen_pairs, deduped) ==
        IF rest = <<>> THEN deduped
        ELSE LET key == <<Head(rest).commenter, Head(rest).text>>
             IN IF key \notin seen_pairs
                THEN Dedupe(Tail(rest), seen_pairs \cup {key}, Append(deduped, Head(rest)))
                ELSE Dedupe(Tail(rest), seen_pairs, deduped)
  IN Dedupe(Extract(filtered, <<>>), {}, <<>>)

\* postComments.main: data = scrape_comments(url, max_comments), then the
\* printed result {"scraped_total": len(comments), "comments": comments}
PcScrape ==
  /\ cn.pc = "blocks"
  /\ \E comments \in {scrape_comments(cn.u1, cn.u2[1])} :
       cn' = [cn EXCEPT !.pc = "blocks1", !.out1 = <<comments, Len(comments)>>]
  /\ UNCHANGED <<files, fp, rf, pipe, runs, cr, web>>

\* append_done_url_now(u) for the next URL u: out2 is done_urls.csv before
\* the call, out1 after it, again the URLs passed so far
DoneCall ==
  /\ cn.pc = "calls"
  /\ cn.u1 # <<>>
  /\ cn' = [cn EXCEPT !.u1 = Tail(@), !.out2 = cn.out1,
                      !.out1 = <<append_done_url_now(cn.out1[1], Head(cn.u1))>>,
                      !.again = Append(@, Head(cn.u1))]
  /\ UNCHANGED <<files, fp, rf, pipe, runs, cr, web>>

\* run_and_act_streaming, lines 244-249 (254-258): the removal of the
\* decided URL from the pending list read_rows has read.  out2 is the pending
\* file before, out1 the file after, again the new remaining_rows.
RemoveCall ==
  /\ cn.pc = "rows"
  /\ \E headers \in {<<<<"post_url">>, <<"note">>>>} :
       \E before \in {[exists |-> TRUE, os |-> <<headers>> \o cn.u1, disk |-> <<headers>> \o cn.u1]},
          new_remaining \in {Remaining(cn.u1, rf_find_url_column(headers), rf_normalize_url(cn.u2))} :
         cn' = [cn EXCEPT !.pc = "rows1", !.out2 = <<before>>,
                          !.out1 = <<IF Len(new_remaining) # Len(cn.u1)
                                     THEN write_rows_now(before, headers, new_remaining)
                                     ELSE before>>,
                          !.again = new_remaining]
  /\ UNCHANGED <<files, fp, rf, pipe, runs, cr, web>>

\* oneline(s), then oneline called on its result
OlOneline ==
  /\ cn.pc \in {"text", "text1"}
  /\ cn' = IF cn.pc = "text"
           THEN [cn EXCEPT !.pc = "text1", !.out1 = <<oneline(cn.u1)>>]
           ELSE [cn EXCEPT !.pc = "text2", !.again = <<oneline(cn.out1[1])>>]
  /\ UNCHANGED <<files, fp, rf, pipe, runs, cr, web>>

\* _find_url_column(reader.fieldnames) of filterPosts and of run_filters, and
\* the column in which url_in_csv finds a URL of the row (0 for none)
ColDetect ==
  /\ cn.pc = "header"
  /\ \E fr \in {[exists |-> TRUE, os |-> <<cn.u1, SubSeq(<<U1, U2>>, 1, Len(cn.u1))>>,
                  disk |-> <<>>]} :
       cn' = [cn EXCEPT !.pc = "header1",
                        !.out1 = <<find_url_column(cn.u1),
                                   rf_find_url_column_done(cn.u1),
                                   IF url_in_csv(fr, U1) THEN 1
                                   ELSE IF url_in_csv(fr, U2) THEN 2 ELSE 0>>]
  /\ UNCHANGED <<files, fp, rf, pipe, runs, cr, web>>

SpecPure ==
  InitPure /\ [][OlOneline \/ ColDetect \/ CnCanon \/ CnAgain \/ PcScrape \/ DoneCall
                  \/ RemoveCall]_vars


\* ------------------------------------------------------------ properties
\* the key of a ledger row: its first cell, canonicalized
RowKey(row) == normalize_url(Cell(row, 1))

\* process p found the URL in an outcome ledger
Skipped(p) == fp[p].hits # {}

\* the data rows of a file keyed by u
KeyedRows(fr, u) == {i \in 2..Len(fr.os) : RowKey(fr.os[i]) = u}

\* number of rows keyed by u in the union of the outcome ledgers
RowCount(u) ==
  Cardinality(KeyedRows(files["accepted"], u)) +
  Cardinality(KeyedRows(files["nonadmin"], u)) +
  Cardinality(KeyedRows(files["rejected"], u))

InLog(u) == KeyedRows(files["log"], u) # {}
InDone(u) == KeyedRows(files["done"], u) # {}
InPending(u) == KeyedRows(files["pending"], u) # {}

DataRows(fr) == IF fr.os = <<>> THEN <<>> ELSE Tail(fr.os)

IsPrefix(a, b) == Len(a) <= Len(b) /\ SubSeq(b, 1, Len(a)) = a

\* C1 - at-most-once commit: after any sequence of sequential runs, with
\* crashes between sub-steps, the union of the three outcome ledgers holds at
\* most one row keyed by each candidate URL.
AtMostOnceCommit == \A u \in CanonURLs : RowCount(u) <= 1

\* a run over a URL whose outcome row was committed by a run that died before
\* its run-log append is on the skip path
AtMostOnceCommitWitness ==
  /\ fp[1].pc = "skip_mark"
  /\ RowCount(U1) = 1
  /\ ~InLog(U1)

\* C2 - de-duplication at write under racing processes: two filterPosts
\* processes classifying the same URL leave at most one row for it in the
\* target outcome ledger.
DedupAtWriteUnderRace ==
  \A l \in OutcomeLedgers : \A u \in CanonURLs : Cardinality(KeyedRows(files[l], u)) <= 1

\* C3 - at most one outcome per post: no URL appears in more than one of the
\* outcome ledgers, under any interleaving of filterPosts runs.
OneOutcomePerPost ==
  \A u \in CanonURLs : Cardinality({l \in OutcomeLedgers : KeyedRows(files[l], u) # {}}) <= 1

\* a step in which process p gets an answer from the comments collaborator
FetchStep(p) ==
  /\ fp[p].pc = "comments"
  /\ fp'[p].pc # "comments"
  /\ fp'[p].rc # 137

\* C4 - no post is classified twice: in sequential runs the fetch collaborator
\* is never invoked for a URL that already has a committed outcome row.
NoFetchAfterCommit ==
  [][\A p \in Procs : FetchStep(p) => RowCount(post_url_norm(p)) = 0]_vars

\* a run given a non-canonical variant of a committed URL takes the skip path
NoFetchAfterCommitWitness ==
  /\ Skipped(1)
  /\ fp[1].raw = U1v
  /\ RowCount(U1) = 1
  /\ InLog(U1)

\* while a run is on the skip path it has fetched nothing and written nothing;
\* once run_filters has acted on the skip line the URL is out of the pending file
SkippedState ==
  /\ \A p \in Procs : Skipped(p) => ~fp[p].fetched /\ ~fp[p].wrote
  /\ rf.decided = "skip" => ~InPending(rf_normalize_url(rf.url))

\* no step changes a ledger, the run-log or done_urls while the run is on the
\* skip path, and done_urls never changes after a skip line was read
SkippedStep ==
  /\ (\E p \in Procs : Skipped(p)) =>
        \A f \in FileNames \ {"pending"} : files'[f] = files[f]
  /\ files'["done"] # files["done"] => "skipped" \notin rf.lines

\* C5 - skipped transition: a run that finds the URL in an outcome ledger
\* fetches nothing and appends nothing; run_filters, having read the skip
\* line, removes the URL from the pending list and never appends to done_urls
\* on account of that run.
SkippedTransition == []SkippedState /\ [][SkippedStep]_vars

SkippedTransitionWitness ==
  /\ rf.decided = "skip"
  /\ RowCount(rf_normalize_url(rf.url)) = 1
  /\ ~InPending(rf_normalize_url(rf.url))
  /\ ~InDone(rf_normalize_url(rf.url))

\* C6 - collaborator failure has no side effects: a run in which a fetch
\* collaborator exited non-zero or gave no JSON writes no ledger row.
CollaboratorFailureNoEffects == \A p \in Procs : fp[p].failed => ~fp[p].wrote

\* C7 - commit ordering: run_filters appends a URL to done_urls (and removes
\* it from the pending list) only after the child has appended the outcome row
\* and the run-log row.
CommitOrdering == \A u \in CanonURLs : InDone(u) => RowCount(u) >= 1 /\ InLog(u)

\* C8 - consistency of the pending work-list: whenever run_filters is not
\* running (it ended, was interrupted or crashed), every URL that was pending
\* is still in the pending file or is recorded in an outcome ledger.
PendingNeverLost ==
  rf.pc = "idle" => \A u \in CanonURLs : InPending(u) \/ RowCount(u) >= 1

\* C9 - durability discipline: every step that writes data rows to a ledger
\* through one of the write paths leaves the file's content forced to stable
\* storage when the call returns.
DurableWrites ==
  [][\A f \in FileNames :
       (DataRows(files'[f]) # DataRows(files[f]) /\ rf'.pc # "rewrite")
          => files'[f].disk = files'[f].os]_vars

\* C10 - appends never overwrite or reorder: in every step the data rows of
\* an append-only ledger stay a prefix of its data rows afterwards.
AppendOnly ==
  [][\A f \in FileNames \ {"pending"} :
       IsPrefix(DataRows(files[f]), DataRows(files'[f]))]_vars

\* C11 - header on a new or empty file: an append to a ledger that is
\* absent or exists but is empty writes the header row before the first data
\* row, so that afterwards contains(url) (url_in_csv for the outcome ledgers,
\* done_contains for done_urls) is true of the appended URL.
HeaderOnEmptyFile ==
  [][/\ \A p \in Procs :
         LET l == LedgerOf(fp[p].outcome)
         IN (fp[p].pc = "append" /\ fp'[p].pc = "mark" /\ Len(files[l].os) <= 1)
            => /\ files'[l].os[1] = HeaderOf(l)
               /\ url_in_csv(files'[l], LedgerKey(p))
     /\ (rf.pc = "append_done" /\ rf'.pc = "remove" /\ Len(files["done"].os) <= 1)
          => /\ files'["done"].os[1] = HdrDone
             /\ done_contains(files'["done"], rf_normalize_url(rf.url))]_vars

\* ---- the crawler
\* the canonical URL of row k of a file
CrKey(rows, k) == canonicalize_url(Strip(Cell(rows[k], 1)))

\* the rows this crawl run has appended to the work-list, as the operating
\* system holds them and as they are on stable storage
AppendedOs == SubSeq(files["pending"].os, cr.rows0 + 1, Len(files["pending"].os))
AppendedDisk == SubSeq(files["pending"].disk, cr.rows0 + 1, Len(files["pending"].disk))

CrEnded == cr.pc \in {"finished", "aborted"}

\* the number of the round the loop is in (0 before the first)
RoundNo ==
  IF cr.pc = "baseline" THEN 0 ELSE IF cr.pc = "round" THEN cr.i ELSE cr.i + 1

\* C12 - crawler termination: every run of the collection loop ends, through
\* the target being reached, the stall threshold, the round cap or an
\* unrecoverable driver error (or the process being killed).
CrawlTerminates ==
  CrRunning ~> (CrEnded /\ cr.exit \in {"target", "stall", "cap", "error", "killed"})

CrawlTerminatesWitness ==
  /\ cr.pc = "finished" /\ cr.exit = "cap"
  /\ cr.i = cr.max_scrolls
  /\ cr.newly_added >= 1

\* C13 - bounded exhaustion: if the feed produces nothing after round k, the
\* loop ends within k + STALL_LIMIT rounds; so the loop is never in a round
\* later than STALL_LIMIT rounds after the last one in which the feed grew.
BoundedExhaustion == CrRunning => RoundNo <= web.lastGrow + STALL_LIMIT

\* C14 - stall counter rule: at the end of a round the stall counter is 0 if
\* the round showed growth from any source (new URLs in the snapshot, the
\* idle wait, a nudge) and one more than before otherwise; the loop stops by
\* exhaustion exactly when the counter reaches STALL_LIMIT.
StallCounterRule ==
  [][(cr.pc = "stall" /\ cr'.pc \in {"round", "finished"}) =>
       LET growth == cr.added > 0 \/ cr.saw_new \/ cr.nudged
       IN /\ cr'.stalls = IF growth THEN 0 ELSE cr.stalls + 1
          /\ (cr'.pc = "finished") <=> (cr'.stalls >= STALL_LIMIT)]_vars

\* C15 - no duplication across reloads and session replacement: the
\* work-list never holds a canonical URL twice, and never one that is in
\* done_urls, whatever soft reloads, prunes and hard restarts occur.
NoDuplicateAppend ==
  LET rows == files["pending"].os
  IN /\ \A j, k \in 2..Len(rows) : j # k => CrKey(rows, j) # CrKey(rows, k)
     /\ \A k \in 2..Len(rows) : CrKey(rows, k) \notin load_existing_urls(files["done"])

\* after a hard restart the page shows again a post this run has appended
NoDuplicateAppendWitness ==
  /\ cr.pc = "target" /\ cr.again /\ cr.added = 0
  /\ \E k \in 1..Len(AppendedOs) :
       CrKey(AppendedOs, k) \in Discovered(JS_SNAPSHOT_HREFS(web.dom))

\* C16 - baseline exclusion: no step appends to the work-list a URL of the
\* baseline snapshot of the run.
BaselineExclusion ==
  [][\A u \in cr.baseline :
       \A k \in 2..Len(files'["pending"].os) :
         CrKey(files'["pending"].os, k) = u => k <= Len(files["pending"].os)]_vars

\* a post of the baseline is on the page again after a hard restart, in a
\* snapshot that yields no new URL, while the run has appended another post
BaselineExclusionWitness ==
  /\ cr.pc = "target" /\ cr.again /\ cr.added = 0
  /\ U3 \in cr.baseline
  /\ U3 \in Discovered(JS_SNAPSHOT_HREFS(web.dom))
  /\ Len(AppendedOs) >= 1

\* C18 - immediate persistence: every URL counted in newly_added is already a
\* row of the work-list on stable storage, one row per URL, also when the
\* run has been aborted.
ImmediatePersistence ==
  cr.pc # "idle" =>
    /\ cr.newly_added <= Len(AppendedDisk)
    /\ Len(AppendedDisk) <= cr.newly_added + 1
    /\ CrRunning => \A k \in 1..cr.newly_added : CrKey(AppendedDisk, k) \in cr.seen

ImmediatePersistenceWitness ==
  /\ cr.pc = "aborted" /\ cr.exit = "error"
  /\ cr.newly_added >= 1
  /\ Len(AppendedDisk) = cr.newly_added

\* C17 - the crawler deduplicates against the ledger: a crawl run never
\* appends to the work-list a URL that an outcome ledger already records as
\* decided, whatever filterPosts and run_filters runs came before.
CrawlerDedupsLedger ==
  [][(cr.pc = "append" /\ cr'.pc = "count") => RowCount(Head(cr.todo)) = 0]_vars

\* ---- the classification
\* positions of the admin-like comments and of the comments naming a target
AdminIdx(cs) == {i \in 1..Len(cs) : is_admin_like(cs[i], load_staff_names)}
MatchIdx(cs) == {i \in 1..Len(cs) : text_matches_targets(cs[i].text)}

\* the outcome as the table (admin comment present, target match) gives it
Expected(cs) ==
  IF AdminIdx(cs) # {}
  THEN IF AdminIdx(cs) \cap MatchIdx(cs) # {} THEN "Accepted" ELSE "Rejected - w/admin"
  ELSE IF MatchIdx(cs) # {} THEN "Saved - no admin" ELSE "Rejected - no admin"

\* the rows a step appends to a file
NewRows(f) == SubSeq(files'[f].os, Len(files[f].os) + 1, Len(files'[f].os))

MinOf(S) == CHOOSE i \in S : \A j \in S : i <= j

\* process 1 appends its outcome rows / its run-log row in this step
AppendStep == fp[1].pc = "append" /\ fp'[1].pc = "mark"
LogStep == fp[1].pc = "log_append" /\ fp'[1].pc = "exited"

\* C21 - admin priority: when a post has an admin-like comment, only the
\* admin-like comments are searched for a target: the post goes to the
\* accepted ledger if one of them names a target and to the rejected ledger,
\* logged "Rejected - w/admin", otherwise, whatever the non-admin comments say.
AdminPriority ==
  [][AdminIdx(fp[1].comments) # {} =>
       LET hit == AdminIdx(fp[1].comments) \cap MatchIdx(fp[1].comments) # {}
           l == IF hit THEN "accepted" ELSE "rejected"
       IN /\ AppendStep =>
               /\ NewRows(l) # <<>>
               /\ \A f \in OutcomeLedgers \ {l} : files'[f] = files[f]
          /\ LogStep =>
               NewRows("log")[1][3] = <<IF hit THEN "Accepted" ELSE "Rejected - w/admin">>]_vars

\* a non-admin comment names a target, the admin comment does not, and the
\* post has been written to the rejected ledger
AdminPriorityWitness ==
  /\ fp[1].pc = "mark" /\ fp[1].wrote
  /\ fp[1].comments = <<CSnake, CAdminOnly>>
  /\ fp[1].outcome = "Rejected - w/admin"
  /\ Len(files["rejected"].os) = 2
  /\ ~files["nonadmin"].exists

\* C22 - exactly one outcome: a run that is not skipped and whose
\* collaborators succeed writes the post to the one ledger the table (admin
\* present, target match) names, and appends one run-log row with the status
\* string of that outcome; a post without comments is "Rejected - no admin".
ExactlyOneOutcome ==
  [][LogStep =>
       LET e == Expected(fp[1].comments)
           l == CASE e = "Accepted" -> "accepted"
                  [] e = "Saved - no admin" -> "nonadmin"
                  [] OTHER -> "rejected"
       IN /\ fp[1].outcome = e
          /\ KeyedRows(files'[l], U1) # {}
          /\ \A f \in OutcomeLedgers \ {l} : ~files'[f].exists
          /\ files'["log"].os =
               <<HdrLog, <<U1, <<Len(fp[1].comments)>>, <<e>>>>>>]_vars

\* the run on a post without comments has ended
ExactlyOneOutcomeWitness ==
  /\ fp[1].pc = "exited" /\ fp[1].rc = 0
  /\ files["log"].os = <<HdrLog, <<U1, <<0>>, <<"Rejected - no admin">>>>>>
  /\ files["rejected"].os = <<HdrRejected, <<U1, Dash, Dash>>>>

\* C23 - representative comment: the accepted row carries the first
\* admin comment naming a target that has the inline marker, else the first
\* admin comment naming a target; the rejected-with-admin row carries the
\* first admin comment with the marker, else the first admin comment.
RepresentativeComment ==
  [][(AppendStep /\ AdminIdx(fp[1].comments) # {}) =>
       LET cs == fp[1].comments
           hit == AdminIdx(cs) \cap MatchIdx(cs) # {}
           cand == IF hit THEN AdminIdx(cs) \cap MatchIdx(cs) ELSE AdminIdx(cs)
           tagged == {i \in cand : has_admin_tag(cs[i].text)}
           pick == MinOf(IF tagged # {} THEN tagged ELSE cand)
           row == NewRows(IF hit THEN "accepted" ELSE "rejected")[1]
       IN /\ row[Len(row) - 1] = oneline(cs[pick].commenter)
          /\ row[Len(row)] = oneline(cs[pick].text)]_vars

\* the second admin comment naming a target has the marker, the first has
\* not, and the accepted row carries the second
RepresentativeCommentWitness ==
  /\ fp[1].pc = "mark" /\ fp[1].wrote
  /\ fp[1].comments = <<CStaffSnake, CPlain, CAdminSnake>>
  /\ files["accepted"].os[2][6] = oneline(CAdminSnake.text)

\* C24 - rows of the non-admin ledger: one row with the URL, the post fields
\* and the first matching comment, then one placeholder row for each further
\* distinct (commenter, text) among the matching comments, in their order;
\* no pair twice, no URL in a placeholder row.
SavedRows ==
  [][(AppendStep /\ Expected(fp[1].comments) = "Saved - no admin") =>
       LET cs == fp[1].comments
           key(i) == <<oneline(cs[i].commenter), oneline(cs[i].text)>>
           firsts == {i \in MatchIdx(cs) :
                        \A j \in MatchIdx(cs) : j < i => key(j) # key(i)}
           rows == NewRows("nonadmin")
       IN /\ Len(rows) = Cardinality(firsts)
          /\ \A i \in firsts :
               rows[Cardinality({j \in firsts : j <= i})] =
                 IF i = MinOf(firsts)
                 THEN <<U1, oneline(fp[1].pd.date_iso), oneline(fp[1].pd.poster),
                        oneline(fp[1].pd.text), key(i)[1], key(i)[2]>>
                 ELSE <<Dash, Dash, Dash, Dash, key(i)[1], key(i)[2]>>]_vars

\* three matching comments, the third repeating the first: two rows
SavedRowsWitness ==
  /\ fp[1].pc = "mark" /\ fp[1].wrote
  /\ fp[1].comments = <<CSnake, CSnake2, CSnake>>
  /\ Len(files["nonadmin"].os) = 3
  /\ files["nonadmin"].os[3][1] = Dash

\* C25 - postDetails is run in a run if and only if the outcome of the run
\* is Accepted or Saved - no admin: never on the skip path, never for a
\* rejection, and only after postComments has returned.
DetailsIffFullOutcome ==
  [][\A p \in Procs :
       /\ (fp[p].pc = "comments" /\ fp'[p].pc \in {"details", "dedup"}) =>
            (fp'[p].pc = "details" <=>
               Expected(fp'[p].comments) \in {"Accepted", "Saved - no admin"})
       /\ (fp[p].pc # "details" /\ fp'[p].pc = "details") =>
            fp[p].pc = "comments" /\ fp'[p].fetched /\ ~Skipped(p)
       /\ (fp[p].pd = NoPd /\ fp'[p].pd # NoPd) =>
            fp[p].pc = "details" /\ fp[p].fetched /\ ~Skipped(p)]_vars

\* postDetails has returned in a run whose outcome is Saved - no admin
DetailsIffFullOutcomeWitness ==
  /\ fp[1].pc = "dedup"
  /\ fp[1].outcome = "Saved - no admin"
  /\ fp[1].fetched
  /\ fp[1].pd # NoPd

\* C26 - the run-log is a complete audit: whenever no filterPosts run is
\* under way, every URL that has a row in an outcome ledger has a row in
\* run_log.csv.
RunLogComplete ==
  (\A p \in Procs : fp[p].pc \in {"idle", "exited"}) =>
    \A u \in CanonURLs : RowCount(u) >= 1 => InLog(u)

IdentityStability ==
  cn.pc \in {"once", "twice"} => \A k \in 1..3 : cn.out1[k] = cn.out2[k]

\* the mobile host with two trailing slashes and a query, and the bare host
\* with a fragment: one image, the www spelling of the post
IdentityStabilityWitness ==
  /\ cn.pc = "once"
  /\ cn.u1 = <<"https://", "m.facebook.", "com/groups/g/posts/1", "/", "/", "?", "ref=x">>
  /\ cn.u2 = <<"https://", "facebook.", "com/groups/g/posts/1", "#", "c">>
  /\ \A k \in 1..3 : cn.out1[k] = U1 /\ cn.out2[k] = U1

\* C29 - one identity key across components: the three canonicalizers give
\* the same canonical form for every input URL, http:// URLs and relative
\* hrefs included.
OneIdentityKey ==
  cn.pc \in {"once", "twice"} =>
    cn.out1[1] = cn.out1[2] /\ cn.out1[2] = cn.out1[3]

\* C30 - each canonicalizer is idempotent: applied to its own result it
\* returns that result, also for strings with white space before a query or
\* fragment and with repeated trailing slashes.
CanonIdempotent ==
  cn.pc = "twice" => cn.again = cn.out1

\* C31 - oneline is idempotent: for every text, empty, with stylized letters
\* or with any mix of whitespace characters, oneline(oneline(s)) = oneline(s).
OnelineIdempotent ==
  cn.pc = "text2" => cn.again[1] = cn.out1[1]

\* a text with stylized letters, a run of three different whitespace
\* characters inside and white space at its end: one line, and the same line
\* when oneline is called on it
OnelineIdempotentWitness ==
  /\ cn.pc = "text2"
  /\ cn.u1 = <<"fancy-naja", "\n", "\f", " ", "a">>
  /\ cn.out1[1] = <<"naja philippinensis", " ", "a">>
  /\ cn.again[1] = cn.out1[1]

\* C32 - identity-column detection: for every header list the column is one
\* named "post url" (case, white space and byte-order mark aside), else one
\* named "url", else one whose name contains "url", else the default column;
\* url_in_csv looks for the URL in that column, so it finds a stored URL also
\* when no header is url-like.
ColumnPrecedence ==
  cn.pc = "header1" =>
    LET cleaned == [i \in 1..Len(cn.u1) |-> clean_fieldname(cn.u1[i])]
        Exact(w) == {i \in 1..Len(cn.u1) : cleaned[i] = w}
        Loose == {i \in 1..Len(cn.u1) : \E k \in 1..Len(cleaned[i]) :
                                          cleaned[i][k] \in {"url", "post_url"}}
        wanted == IF Exact(<<"post", " ", "url">>) # {} THEN Exact(<<"post", " ", "url">>)
                  ELSE IF Exact(<<"url">>) # {} THEN Exact(<<"url">>)
                  ELSE IF Loose # {} THEN Loose
                  ELSE {1}
    IN cn.out1[1] \in wanted /\ cn.out1[3] \in wanted

\* C33 - ledger I/O errors are fatal: when the append to done_urls.csv has
\* not brought the row to the disk (the write or the sync failed), run_filters
\* stops; it does not go on to remove the candidate from the pending list.
IoErrorsFatal ==
  [][(rf.pc = "append_done" /\ files'["done"] # files["done"]
        /\ files'["done"].disk # files'["done"].os) => rf'.pc = "idle"]_vars

\* C35 - Firefox crawler exhaustion: once the feed has stopped growing the
\* loop of scrapePosts_firefox.collect ends within a bounded number of rounds
\* (one round to collect what the last growth brought, one to find nothing
\* and nudge to the end of the feed); growth seen in earlier rounds does not
\* keep it scrolling.  Rounds are counted from 1, web.lastGrow is the round
\* of the last growth (0 for none); a round cut short by a browser crash
\* decides nothing and is not counted.
FirefoxExhaustion ==
  (CrRunning /\ cr.pc \in {"ff_collect", "ff_scroll", "ff_nudge"}) =>
     cr.i + 1 <= web.lastGrow + 2 + web.crashes

\* C36 - at most one action per candidate per run: run_filters starts the
\* decision action (the done_urls append and/or the pending-list rewrite)
\* only while it has not acted for this child, on a line that classifies as
\* a marker; once it has acted, no step of run_filters for this child (a
\* later line, the post-exit reconciliation) changes done_urls.csv or the
\* pending list or starts the action again.
OneActionPerCandidate ==
  [][/\ (rf.pc = "stream" /\ rf'.pc \in {"append_done", "remove"}) =>
          /\ ~rf.acted /\ rf.decided = "unknown"
          /\ pipe # <<>> /\ rf'.kind # "unknown"
     /\ (rf.pc = "stream" /\ rf.acted /\ rf' # rf) =>
          /\ files'["done"] = files["done"]
          /\ files'["pending"] = files["pending"]
          /\ rf'.pc \notin {"append_done", "remove", "rewrite"}]_vars

\* run_filters has acted for the child and the output read so far, with the
\* next line it will read, classifies as a marker again
OneActionPerCandidateWitness ==
  /\ rf.pc = "stream" /\ rf.acted
  /\ rf.decided \in {"accept", "reject", "saved"}
  /\ pipe # <<>>
  /\ classify_result_text(rf.lines \cup Head(pipe)) = rf.decided

\* C37 - done_urls implies decided: run_filters appends a URL to
\* done_urls.csv only when an outcome ledger holds a row for that post (the
\* child has appended it or found it present), and a URL whose child ends
\* with a failure exit code has not been put on done_urls.csv by that run.
DoneImpliesDecided ==
  [][/\ (rf.pc \in {"append_done", "stream"} /\ rf' # rf
           /\ files'["done"].os # files["done"].os) =>
          already_processed(files, rf.url) # {}
     /\ (rf.pc = "stream" /\ rf'.pc = "loop" /\ fp[1].rc # 0) =>
          /\ rf.decided \notin {"accept", "reject", "saved"}
          /\ files'["done"] = files["done"]]_vars

\* C38 - append_done_url_now is idempotent with respect to done_urls.csv:
\* after any sequence of calls the file holds one header row, no empty data
\* row and no two data rows whose normalized URLs are equal, and a call with
\* a URL that was passed before, or with a variant of one, leaves the file
\* as it was.
DoneIdempotent ==
  (cn.pc = "calls" /\ cn.again # <<>>) =>
    LET fr == cn.out1[1]
        u == cn.again[Len(cn.again)]
        key(i) == rf_normalize_url(Strip(Cell(fr.os[i], 1)))
    IN /\ fr.os # <<>> => fr.os[1] = HdrDone
       /\ \A i \in 2..Len(fr.os) : Cell(fr.os[i], 1) # <<>>
       /\ \A i, j \in 2..Len(fr.os) : key(i) = key(j) => i = j
       /\ (\E k \in 1..(Len(cn.again) - 1) :
             rf_normalize_url(cn.again[k]) = rf_normalize_url(u)) =>
            fr = cn.out2[1]

MarkerRecognition ==
  [][(fp[1].child /\ Len(pipe') > Len(pipe)) =>
       LET new == SubSeq(pipe', Len(pipe) + 1, Len(pipe'))
           seen == rf.lines \cup UNION {pipe[k] : k \in 1..Len(pipe)}
       IN CASE fp[1].pc = "skip_mark" ->
                 /\ classify_result_text(new[1]) = "unknown"
                 /\ classify_result_text(seen \cup new[1]) = "unknown"
                 /\ classify_result_text(new[2]) = "skip"
            [] fp[1].pc = "mark" ->
                 /\ classify_result_text(seen) = "unknown"
                 /\ classify_result_text(new[1]) =
                      (IF fp[1].outcome = "Accepted" THEN "accept"
                       ELSE IF fp[1].outcome = "Saved - no admin" THEN "saved"
                       ELSE "reject")
            [] fp[1].pc \in {"comments", "details"} ->
                 /\ classify_result_text(new[1]) = "unknown"
                 /\ classify_result_text(seen \cup new[1]) = "unknown"
            [] OTHER -> TRUE]_vars

\* the child has just printed the outcome line of the Rejected-no-admin
\* path, after its status block, and run_filters is reading
MarkerRecognitionWitness ==
  /\ rf.pc = "stream" /\ ~rf.acted
  /\ fp[1].child /\ fp[1].pc = "log_ensure" /\ fp[1].outcome = "Rejected - no admin"
  /\ pipe # <<>>
  /\ pipe[Len(pipe)] = {"emoji:red", "no admin and no snake"}

SuccessTermination ==
  [][(CrRunning /\ cr.target_new > 0 /\ cr.newly_added >= cr.target_new) =>
       /\ files'["pending"] = files["pending"]
       /\ ~(cr.pc = "scroll" /\ cr'.pc = "wait")
       /\ ~(cr.pc = "nudge" /\ cr'.pc \in {"nudge", "stall"})]_vars

\* C20 - a driver crash recovery leaves the stall counter and the seen-set
\* as they were.
RecoveryFrame ==
  [][(cr.pc \in {"restart", "restart2"} /\ cr'.pc \in {"collect", "wait"}) =>
       cr'.stalls = cr.stalls /\ cr'.seen = cr.seen]_vars

\* a recovery has just happened in a run that had counted a stall and had
\* appended a URL
RecoveryFrameWitness ==
  /\ cr.pc = "collect" /\ cr.again
  /\ cr.stalls >= 1
  /\ cr.newly_added >= 1

====
